---- MODULE Spec2Model ----
(***************************************************************************)
(* Download-and-delivery pipeline of the Telegram video downloader bot:    *)
(* handle_message (bot.py) driving ProgressManager (progress.py),          *)
(* download_video (downloader.py), send_video (sender.py) and the error    *)
(* classifier (error_handler.py), run by a single-threaded cooperative     *)
(* scheduler (asyncio).                                                    *)
(*                                                                         *)
(* Texts are sequences of one-character strings, so that substring         *)
(* matching, concatenation and number formatting are computed as the       *)
(* code computes them.  Characters outside ASCII are transliterated        *)
(* (diacritics dropped, pictographs written "*"); no keyword of the        *)
(* classifier contains such a character.                                   *)
(***************************************************************************)
EXTENDS Integers, Sequences, FiniteSets, TLC

(***************************************************************************)
(* Bounds of the model.                                                    *)
(***************************************************************************)
\* Progress events the extraction engine reports during one download.
MaxEvents == 2

(***************************************************************************)
(* error_handler.py: keyword groups, in the order map_ytdlp_error tries    *)
(* them.                                                                   *)
(***************************************************************************)
not_found_keywords ==
    << <<"v","i","d","e","o"," ","u","n","a","v","a","i","l","a","b","l","e">>,
       <<"n","o","t"," ","f","o","u","n","d">>,
       <<"d","o","e","s"," ","n","o","t"," ","e","x","i","s","t">>,
       <<"h","a","s"," ","b","e","e","n"," ","r","e","m","o","v","e","d">>,
       <<"d","e","l","e","t","e","d">>,
       <<"u","n","a","v","a","i","l","a","b","l","e">>,
       <<"n","o"," ","v","i","d","e","o">>,
       <<"4","0","4">> >>

access_denied_keywords ==
    << <<"p","r","i","v","a","t","e">>,
       <<"r","e","s","t","r","i","c","t","e","d">>,
       <<"a","g","e","-","r","e","s","t","r","i","c","t","e","d">>,
       <<"a","g","e"," ","r","e","s","t","r","i","c","t","e","d">>,
       <<"l","o","g","i","n"," ","r","e","q","u","i","r","e","d">>,
       <<"s","i","g","n"," ","i","n">>,
       <<"m","e","m","b","e","r","s"," ","o","n","l","y">>,
       <<"s","u","b","s","c","r","i","b","e","r","s"," ","o","n","l","y">>,
       <<"p","e","r","m","i","s","s","i","o","n"," ","d","e","n","i","e","d">>,
       <<"a","c","c","e","s","s"," ","d","e","n","i","e","d">>,
       <<"f","o","r","b","i","d","d","e","n">>,
       <<"4","0","3">> >>

network_keywords ==
    << <<"n","e","t","w","o","r","k">>,
       <<"c","o","n","n","e","c","t","i","o","n">>,
       <<"t","i","m","e","o","u","t">>,
       <<"t","i","m","e","d"," ","o","u","t">>,
       <<"u","n","r","e","a","c","h","a","b","l","e">>,
       <<"d","n","s">>,
       <<"s","o","c","k","e","t">>,
       <<"s","s","l">>,
       <<"c","e","r","t","i","f","i","c","a","t","e">>,
       <<"c","o","n","n","e","c","t"," ","e","r","r","o","r">>,
       <<"c","o","n","n","e","c","t","i","o","n"," ","r","e","f","u","s","e","d">>,
       <<"c","o","n","n","e","c","t","i","o","n"," ","r","e","s","e","t">>,
       <<"n","o"," ","i","n","t","e","r","n","e","t">> >>

\* The list of lines 159-167 with "extractor needs" in the place of
\* "yt-dlp needs".
update_keywords_renamed ==
    << <<"u","p","d","a","t","e">>,
       <<"o","u","t","d","a","t","e","d">>,
       <<"u","p","g","r","a","d","e">>,
       <<"n","e","w"," ","v","e","r","s","i","o","n">>,
       <<"p","l","e","a","s","e"," ","u","p","d","a","t","e">>,
       <<"e","x","t","r","a","c","t","o","r"," ","n","e","e","d","s">>,
       <<"e","x","t","r","a","c","t","o","r"," ","e","r","r","o","r">> >>

update_keywords ==
    << <<"u","p","d","a","t","e">>,
       <<"o","u","t","d","a","t","e","d">>,
       <<"u","p","g","r","a","d","e">>,
       <<"n","e","w"," ","v","e","r","s","i","o","n">>,
       <<"p","l","e","a","s","e"," ","u","p","d","a","t","e">>,
       <<"y","t","-","d","l","p"," ","n","e","e","d","s">>,
       <<"e","x","t","r","a","c","t","o","r"," ","e","r","r","o","r">> >>

(***************************************************************************)
(* Fixed texts: DownloadError messages (models.py) and the texts written   *)
(* by bot.py, downloader.py, sender.py and progress.py.                    *)
(***************************************************************************)

MSG_VIDEO_NOT_FOUND == <<"V","i","d","e","o"," ","k","h","o","n","g"," ","t","o","n"," ","t",
    "a","i"," ","h","o","a","c"," ","d","a"," ","b","i"," ","x","o","a">>
MSG_ACCESS_DENIED == <<"V","i","d","e","o"," ","b","i"," ","g","i","o","i"," ","h","a","n",",",
    " ","k","h","o","n","g"," ","t","h","e"," ","t","a","i">>
MSG_NETWORK_ERROR == <<"L","o","i"," ","k","e","t"," ","n","o","i"," ","m","a","n","g",","," ",
    "v","u","i"," ","l","o","n","g"," ","t","h","u"," ","l","a","i"," ","s","a","u">>
MSG_FILE_TOO_LARGE == <<"V","i","d","e","o"," ","q","u","a"," ","l","o","n"," ","(",">","5","0",
    "M","B",")",","," ","k","h","o","n","g"," ","t","h","e"," ","g","u","i"," ","q","u","a"," ",
    "T","e","l","e","g","r","a","m">>
MSG_YTDLP_ERROR == <<"L","o","i"," ","y","t","-","d","l","p",","," ","c","o"," ","t","h","e",
    " ","c","a","n"," ","c","a","p"," ","n","h","a","t">>
MSG_UNKNOWN_ERROR == <<"L","o","i"," ","k","h","o","n","g"," ","x","a","c"," ","d","i","n","h">>
TXT_UNKNOWN_ERROR == <<"U","n","k","n","o","w","n"," ","e","r","r","o","r">>
TXT_FILE_NOT_CREATED == <<"F","i","l","e"," ","k","h","o","n","g"," ","d","u","o","c"," ","t",
    "a","o"," ","s","a","u"," ","k","h","i"," ","t","a","i">>
TXT_FILE_MISSING == <<"F","i","l","e"," ","v","i","d","e","o"," ","k","h","o","n","g"," ","t",
    "o","n"," ","t","a","i">>
TXT_SIZE_UNREADABLE == <<"K","h","o","n","g"," ","t","h","e"," ","d","o","c"," ","k","i","c",
    "h"," ","t","h","u","o","c"," ","f","i","l","e">>
TXT_TOO_LARGE_1 == <<"V","i","d","e","o"," ","q","u","a"," ","l","o","n"," ","(">>
TXT_TOO_LARGE_2 == <<"M","B"," ",">"," ">>
TXT_TOO_LARGE_3 == <<"M","B",")","."," ","V","u","i"," ","l","o","n","g"," ","t","h","u"," ",
    "g","i","a","m"," ","c","h","a","t"," ","l","u","o","n","g"," ","h","o","a","c"," ","c","a",
    "t"," ","v","i","d","e","o"," ","n","g","a","n"," ","h","o","n",".">>
TXT_SEND_ERROR == <<"L","o","i"," ","k","h","i"," ","g","u","i"," ","v","i","d","e","o",":",
    " ">>
TXT_DOWNLOADING == <<"D","a","n","g"," ","t","a","i"," ","v","i","d","e","o",".",".",".">>
TXT_SENDING == <<"D","a","n","g"," ","g","u","i"," ","v","i","d","e","o",".",".",".">>
TXT_DOWNLOADING_PCT == <<"D","a","n","g"," ","t","a","i"," ","v","i","d","e","o",".",".",".",
    " ">>
ERROR_PREFIX == <<"*"," ">>
TXT_GUIDANCE == <<"*"," ","T","o","i"," ","k","h","o","n","g"," ","t","i","m"," ","t","h","a",
    "y"," ","l","i","n","k"," ","v","i","d","e","o"," ","t","r","o","n","g"," ","t","i","n"," ",
    "n","h","a","n"," ","c","u","a"," ","b","a","n",".","\n","\n","*"," ","V","u","i"," ","l",
    "o","n","g"," ","g","u","i"," ","l","i","n","k"," ","v","i","d","e","o"," ","t","u",":",
    "\n","-"," ","Y","o","u","T","u","b","e","\n","-"," ","F","a","c","e","b","o","o","k","\n",
    "-"," ","I","n","s","t","a","g","r","a","m","\n","\n","*"," ","G","o"," ","/","h","e","l",
    "p"," ","d","e"," ","x","e","m"," ","h","u","o","n","g"," ","d","a","n"," ","c","h","i"," ",
    "t","i","e","t",".">>
TXT_UNSUPPORTED == <<"*"," ","N","e","n"," ","t","a","n","g"," ","n","a","y"," ","c","h","u",
    "a"," ","d","u","o","c"," ","h","o"," ","t","r","o",".","\n","\n","*"," ","C","a","c"," ",
    "n","e","n"," ","t","a","n","g"," ","d","u","o","c"," ","h","o"," ","t","r","o",":","\n",
    "-"," ","Y","o","u","T","u","b","e"," ","(","y","o","u","t","u","b","e",".","c","o","m",",",
    " ","y","o","u","t","u",".","b","e",")","\n","-"," ","F","a","c","e","b","o","o","k"," ",
    "(","f","a","c","e","b","o","o","k",".","c","o","m",","," ","f","b",".","w","a","t","c","h",
    ")","\n","-"," ","I","n","s","t","a","g","r","a","m"," ","(","i","n","s","t","a","g","r",
    "a","m",".","c","o","m",")">>
(***************************************************************************)
(* Sample descriptions str(e) of the exceptions the extraction engine, the *)
(* chat transport and the operating system raise.                          *)
(***************************************************************************)
ERR_VIDEO_UNAVAILABLE == <<"E","R","R","O","R",":"," ","V","i","d","e","o"," ","u","n","a","v",
    "a","i","l","a","b","l","e">>
ERR_UNSUPPORTED_URL == <<"U","n","s","u","p","p","o","r","t","e","d"," ","U","R","L">>
ERR_TIMED_OUT == <<"T","i","m","e","d"," ","o","u","t">>
ERR_FORBIDDEN == <<"F","o","r","b","i","d","d","e","n",":"," ","b","o","t"," ","w","a","s"," ",
    "b","l","o","c","k","e","d"," ","b","y"," ","t","h","e"," ","u","s","e","r">>
ERR_PERMISSION_DENIED == <<"[","E","r","r","n","o"," ","1","3","]"," ","P","e","r","m","i","s",
    "s","i","o","n"," ","d","e","n","i","e","d">>
ERR_IS_A_DIRECTORY == <<"[","E","r","r","n","o"," ","2","1","]"," ","I","s"," ","a"," ","d","i",
    "r","e","c","t","o","r","y">>

(***************************************************************************)
(* Text helpers: what Python's str.lower, `in`, `+` and number formatting  *)
(* compute.                                                                *)
(***************************************************************************)
UpperChars == <<"A","B","C","D","E","F","G","H","I","J","K","L","M",
                "N","O","P","Q","R","S","T","U","V","W","X","Y","Z">>
LowerChars == <<"a","b","c","d","e","f","g","h","i","j","k","l","m",
                "n","o","p","q","r","s","t","u","v","w","x","y","z">>

LowerChar(c) ==
    IF \E i \in DOMAIN UpperChars : UpperChars[i] = c
    THEN LowerChars[CHOOSE i \in DOMAIN UpperChars : UpperChars[i] = c]
    ELSE c

\* str.lower()
lower(s) == [i \in 1..Len(s) |-> LowerChar(s[i])]

UpperChar(c) ==
    IF \E i \in DOMAIN LowerChars : LowerChars[i] = c
    THEN UpperChars[CHOOSE i \in DOMAIN LowerChars : LowerChars[i] = c]
    ELSE c

\* str.upper()
upper(s) == [i \in 1..Len(s) |-> UpperChar(s[i])]

\* `kw in s` on strings: kw occurs in s as a contiguous substring.
Contains(s, kw) ==
    \E i \in 1..(Len(s) - Len(kw) + 1) : SubSeq(s, i, i + Len(kw) - 1) = kw

\* any(keyword in error_str for keyword in keywords)
any_keyword_in(error_str, keywords) ==
    \E k \in DOMAIN keywords : Contains(error_str, keywords[k])

DigitChars == <<"0","1","2","3","4","5","6","7","8","9">>

\* str(n) for a natural number n.
RECURSIVE DecStr(_)
DecStr(n) ==
    IF n < 10 THEN <<DigitChars[n + 1]>>
    ELSE DecStr(n \div 10) \o <<DigitChars[(n % 10) + 1]>>

\* num/den rounded to the nearest integer, ties to even: the rounding of
\* Python's float formatting (the quotients formatted here are exact).
RoundHalfEven(num, den) ==
    LET q == num \div den
        r == num % den
    IN  IF 2 * r > den \/ (2 * r = den /\ q % 2 = 1) THEN q + 1 ELSE q

\* Texts held in the state are sequences of atoms: the name of a fixed text
\* above, or a single character.  Chars gives the characters of an atom and
\* Render the characters of a text; the code's string operations are computed
\* on the rendered characters.
TextNames ==
    {"MSG_VIDEO_NOT_FOUND", "MSG_ACCESS_DENIED", "MSG_NETWORK_ERROR",
     "MSG_FILE_TOO_LARGE", "MSG_YTDLP_ERROR", "MSG_UNKNOWN_ERROR",
     "TXT_UNKNOWN_ERROR", "TXT_FILE_NOT_CREATED", "TXT_FILE_MISSING",
     "TXT_SIZE_UNREADABLE", "TXT_TOO_LARGE_1", "TXT_TOO_LARGE_2",
     "TXT_TOO_LARGE_3", "TXT_SEND_ERROR", "TXT_DOWNLOADING", "TXT_SENDING",
     "TXT_DOWNLOADING_PCT", "ERROR_PREFIX", "TXT_GUIDANCE", "TXT_UNSUPPORTED",
     "ERR_VIDEO_UNAVAILABLE", "ERR_UNSUPPORTED_URL", "ERR_TIMED_OUT",
     "ERR_FORBIDDEN", "ERR_PERMISSION_DENIED", "ERR_IS_A_DIRECTORY"}

Chars(atom) ==
    CASE atom = "MSG_VIDEO_NOT_FOUND"   -> MSG_VIDEO_NOT_FOUND
      [] atom = "MSG_ACCESS_DENIED"     -> MSG_ACCESS_DENIED
      [] atom = "MSG_NETWORK_ERROR"     -> MSG_NETWORK_ERROR
      [] atom = "MSG_FILE_TOO_LARGE"    -> MSG_FILE_TOO_LARGE
      [] atom = "MSG_YTDLP_ERROR"       -> MSG_YTDLP_ERROR
      [] atom = "MSG_UNKNOWN_ERROR"     -> MSG_UNKNOWN_ERROR
      [] atom = "TXT_UNKNOWN_ERROR"     -> TXT_UNKNOWN_ERROR
      [] atom = "TXT_FILE_NOT_CREATED"  -> TXT_FILE_NOT_CREATED
      [] atom = "TXT_FILE_MISSING"      -> TXT_FILE_MISSING
      [] atom = "TXT_SIZE_UNREADABLE"   -> TXT_SIZE_UNREADABLE
      [] atom = "TXT_TOO_LARGE_1"       -> TXT_TOO_LARGE_1
      [] atom = "TXT_TOO_LARGE_2"       -> TXT_TOO_LARGE_2
      [] atom = "TXT_TOO_LARGE_3"       -> TXT_TOO_LARGE_3
      [] atom = "TXT_SEND_ERROR"        -> TXT_SEND_ERROR
      [] atom = "TXT_DOWNLOADING"       -> TXT_DOWNLOADING
      [] atom = "TXT_SENDING"           -> TXT_SENDING
      [] atom = "TXT_DOWNLOADING_PCT"   -> TXT_DOWNLOADING_PCT
      [] atom = "ERROR_PREFIX"          -> ERROR_PREFIX
      [] atom = "TXT_GUIDANCE"          -> TXT_GUIDANCE
      [] atom = "TXT_UNSUPPORTED"       -> TXT_UNSUPPORTED
      [] atom = "ERR_VIDEO_UNAVAILABLE" -> ERR_VIDEO_UNAVAILABLE
      [] atom = "ERR_UNSUPPORTED_URL"   -> ERR_UNSUPPORTED_URL
      [] atom = "ERR_TIMED_OUT"         -> ERR_TIMED_OUT
      [] atom = "ERR_FORBIDDEN"         -> ERR_FORBIDDEN
      [] atom = "ERR_PERMISSION_DENIED" -> ERR_PERMISSION_DENIED
      [] atom = "ERR_IS_A_DIRECTORY"    -> ERR_IS_A_DIRECTORY
      [] OTHER                          -> <<atom>>

RECURSIVE Render(_)
Render(text) ==
    IF text = <<>> THEN <<>> ELSE Chars(Head(text)) \o Render(Tail(text))

(***************************************************************************)
(* error_handler.py                                                        *)
(***************************************************************************)
_is_video_not_found_error(error_str) == any_keyword_in(error_str, not_found_keywords)

_is_access_denied_error(error_str) == any_keyword_in(error_str, access_denied_keywords)

_is_network_error(error_str) == any_keyword_in(error_str, network_keywords)

_is_ytdlp_update_error(error_str) == any_keyword_in(error_str, update_keywords)

\* A map_ytdlp_error that tests the network group first.
map_ytdlp_error_network_first(error) ==
    LET error_str == lower(Render(error))
    IN  IF _is_network_error(error_str) THEN "NETWORK_ERROR"
        ELSE IF _is_video_not_found_error(error_str) THEN "VIDEO_NOT_FOUND"
        ELSE IF _is_access_denied_error(error_str) THEN "ACCESS_DENIED"
        ELSE IF _is_ytdlp_update_error(error_str) THEN "YTDLP_ERROR"
        ELSE "UNKNOWN_ERROR"

\* The argument is the text str(error); the result names a member of
\* DownloadError.
map_ytdlp_error(error) ==
    LET error_str == lower(Render(error))
    IN  IF _is_video_not_found_error(error_str) THEN "VIDEO_NOT_FOUND"
        ELSE IF _is_access_denied_error(error_str) THEN "ACCESS_DENIED"
        ELSE IF _is_network_error(error_str) THEN "NETWORK_ERROR"
        ELSE IF _is_ytdlp_update_error(error_str) THEN "YTDLP_ERROR"
        ELSE "UNKNOWN_ERROR"

DownloadErrorMembers ==
    {"VIDEO_NOT_FOUND", "ACCESS_DENIED", "NETWORK_ERROR", "FILE_TOO_LARGE",
     "YTDLP_ERROR", "UNKNOWN_ERROR"}

\* error.value
get_error_message(error) ==
    CASE error = "VIDEO_NOT_FOUND" -> <<"MSG_VIDEO_NOT_FOUND">>
      [] error = "ACCESS_DENIED"   -> <<"MSG_ACCESS_DENIED">>
      [] error = "NETWORK_ERROR"   -> <<"MSG_NETWORK_ERROR">>
      [] error = "FILE_TOO_LARGE"  -> <<"MSG_FILE_TOO_LARGE">>
      [] error = "YTDLP_ERROR"     -> <<"MSG_YTDLP_ERROR">>
      [] error = "UNKNOWN_ERROR"   -> <<"MSG_UNKNOWN_ERROR">>

get_user_friendly_error(error) == get_error_message(map_ytdlp_error(error))

(***************************************************************************)
(* Values shared by the components.                                        *)
(***************************************************************************)
\* Python's None where a text is optional, and where a path is.
None == <<"None">>

NoPath == "None"

\* _handle_progress does not call the callback.
NoCall == 0 - 1

\* 1024 * 1024
MB == 1048576

\* Percentages are carried in tenths of a percent, so that the halves the
\* rounding of the status text decides on are integers: Pct(5) is 5%.
Pct(n) == n * 10

(***************************************************************************)
(* The file system under the output directory.  A path is absent, a        *)
(* regular file of some size, or a directory.                              *)
(***************************************************************************)
Absent == [kind |-> "absent", size |-> 0]

RegularFile(size) == [kind |-> "file", size |-> size]

Directory == [kind |-> "dir", size |-> 4096]

os_path_exists(f) == f.kind # "absent"

(***************************************************************************)
(* sender.py                                                               *)
(***************************************************************************)
DEFAULT_MAX_FILE_SIZE == 50 * MB

\* A cleanup_file that reports success without removing anything.
cleanup_file_keeps(f, removeFails) == [ret |-> TRUE, file |-> f]

\* A cleanup_file that reports a failure for a path that does not exist.
cleanup_file_missing_is_error(f, removeFails) ==
    IF os_path_exists(f)
    THEN IF f.kind = "dir" \/ removeFails
         THEN [ret |-> FALSE, file |-> f]
         ELSE [ret |-> TRUE, file |-> Absent]
    ELSE [ret |-> FALSE, file |-> f]

\* cleanup_file on a path in state f; removeFails: the operating system
\* refuses os.remove (it always does for a directory).  Returns the value
\* returned and the state of the path afterwards.
cleanup_file(f, removeFails) ==
    IF os_path_exists(f)
    THEN IF f.kind = "dir" \/ removeFails
         THEN [ret |-> FALSE, file |-> f]
         ELSE [ret |-> TRUE, file |-> Absent]
    ELSE [ret |-> TRUE, file |-> f]

\* get_file_size; statFails: os.path.getsize raises.
get_file_size(f, statFails) ==
    IF statFails THEN -1
    ELSE IF os_path_exists(f) THEN f.size ELSE -1

\* An is_file_size_valid that rejects a file of exactly max_size bytes.
is_file_size_valid_strict(f, max_size, statFails) ==
    LET file_size == get_file_size(f, statFails)
    IN  IF file_size < 0 THEN FALSE ELSE file_size < max_size

is_file_size_valid(f, max_size, statFails) ==
    LET file_size == get_file_size(f, statFails)
    IN  IF file_size < 0 THEN FALSE ELSE file_size <= max_size

\* f"{size_mb:.1f}" for size_mb = file_size / (1024 * 1024)
FormatMB1(file_size) ==
    LET tenths == RoundHalfEven(file_size * 10, MB)
    IN  DecStr(tenths \div 10) \o <<".">> \o DecStr(tenths % 10)

\* f"{max_mb:.0f}" for max_mb = max_size / (1024 * 1024)
FormatMB0(max_size) == DecStr(RoundHalfEven(max_size, MB))

TooLargeMessage(file_size, max_size) ==
    <<"TXT_TOO_LARGE_1">> \o FormatMB1(file_size) \o <<"TXT_TOO_LARGE_2">>
        \o FormatMB0(max_size) \o <<"TXT_TOO_LARGE_3">>

\* A send_video without the comparison of line 149.
send_video_gate_unchecked(f, max_size, statFails, openError) ==
    LET file_size == get_file_size(f, statFails)
    IN  IF ~os_path_exists(f)
        THEN [go |-> FALSE, ret |-> <<FALSE, <<"TXT_FILE_MISSING">>>>]
        ELSE IF file_size < 0
        THEN [go |-> FALSE, ret |-> <<FALSE, <<"TXT_SIZE_UNREADABLE">>>>]
        ELSE IF f.kind = "dir"
        THEN [go |-> FALSE, ret |-> <<FALSE, <<"TXT_SEND_ERROR", "ERR_IS_A_DIRECTORY">>>>]
        ELSE IF openError # None
        THEN [go |-> FALSE, ret |-> <<FALSE, <<"TXT_SEND_ERROR">> \o openError>>]
        ELSE [go |-> TRUE, ret |-> <<TRUE, None>>]

\* A send_video whose line 149 is `file_size >= max_size`.
send_video_gate_strict(f, max_size, statFails, openError) ==
    LET file_size == get_file_size(f, statFails)
    IN  IF ~os_path_exists(f)
        THEN [go |-> FALSE, ret |-> <<FALSE, <<"TXT_FILE_MISSING">>>>]
        ELSE IF file_size < 0
        THEN [go |-> FALSE, ret |-> <<FALSE, <<"TXT_SIZE_UNREADABLE">>>>]
        ELSE IF file_size >= max_size
        THEN [go |-> FALSE, ret |-> <<FALSE, TooLargeMessage(file_size, max_size)>>]
        ELSE IF f.kind = "dir"
        THEN [go |-> FALSE, ret |-> <<FALSE, <<"TXT_SEND_ERROR", "ERR_IS_A_DIRECTORY">>>>]
        ELSE IF openError # None
        THEN [go |-> FALSE, ret |-> <<FALSE, <<"TXT_SEND_ERROR">> \o openError>>]
        ELSE [go |-> TRUE, ret |-> <<TRUE, None>>]

\* send_video up to its await: the checks of lines 139-157 and the open of
\* line 161.  openError is None or the description of the error open()
\* raises (it always raises for a directory).  go: bot.send_video is called;
\* otherwise ret is the pair the function returns.
send_video_gate(f, max_size, statFails, openError) ==
    LET file_size == get_file_size(f, statFails)
    IN  IF ~os_path_exists(f)
        THEN [go |-> FALSE, ret |-> <<FALSE, <<"TXT_FILE_MISSING">>>>]
        ELSE IF file_size < 0
        THEN [go |-> FALSE, ret |-> <<FALSE, <<"TXT_SIZE_UNREADABLE">>>>]
        ELSE IF file_size > max_size
        THEN [go |-> FALSE, ret |-> <<FALSE, TooLargeMessage(file_size, max_size)>>]
        ELSE IF f.kind = "dir"
        THEN [go |-> FALSE, ret |-> <<FALSE, <<"TXT_SEND_ERROR", "ERR_IS_A_DIRECTORY">>>>]
        ELSE IF openError # None
        THEN [go |-> FALSE, ret |-> <<FALSE, <<"TXT_SEND_ERROR">> \o openError>>]
        ELSE [go |-> TRUE, ret |-> <<TRUE, None>>]

\* A send_video without the except clause of lines 167-170 having any
\* effect on the pair returned.
send_video_result_ignores_failure(res) == <<TRUE, None>>

\* A send_video whose except clause is `return False, None`.
send_video_result_no_message(res) ==
    IF res.ok THEN <<TRUE, None>> ELSE <<FALSE, None>>

\* send_video after its await: res is what bot.send_video did.
send_video_result(res) ==
    IF res.ok THEN <<TRUE, None>>
    ELSE <<FALSE, <<"TXT_SEND_ERROR">> \o res.text>>

\* A finally clause that turns a failed deletion into a failed send.
send_video_finally_reports(pair, cleaned) ==
    IF cleaned THEN pair ELSE <<FALSE, <<"TXT_SEND_ERROR">>>>

\* The finally clause of send_video: cleanup_file has returned cleaned,
\* which is dropped, and the pair of the return statement is returned.
send_video_finally(pair, cleaned) == pair

(***************************************************************************)
(* downloader.py                                                           *)
(***************************************************************************)
\* The extensions download_video probes, in its order; the first is the
\* extension of output_path.
Exts == <<".mp4", ".mkv", ".webm", ".m4a">>

ExtSet == {Exts[i] : i \in DOMAIN Exts}

NoFiles == [e \in ExtSet |-> Absent]

DownloadResult(success, file_path, error_message, file_size) ==
    [raised |-> FALSE, success |-> success, file_path |-> file_path,
     error_message |-> error_message, file_size |-> file_size]

\* An exception leaving download_video instead of a DownloadResult.
DownloadRaises(text) ==
    [raised |-> TRUE, success |-> FALSE, file_path |-> NoPath,
     error_message |-> text, file_size |-> 0]

\* A _handle_progress without the min(percentage, 99.0) of lines 83 and 90.
_handle_progress_uncapped(d) ==
    IF d.status = "downloading"
    THEN LET downloaded == d.downloaded_bytes
             total == IF d.total_bytes # 0 THEN d.total_bytes
                      ELSE d.total_bytes_estimate
         IN  IF total > 0
             THEN (downloaded * Pct(100)) \div total
             ELSE IF d.fragment_count > 0
             THEN (d.fragment_index * Pct(100)) \div d.fragment_count
             ELSE NoCall
    ELSE IF d.status = "finished" THEN Pct(100)
    ELSE NoCall

\* A _handle_progress that uses the fragment counters whenever the count
\* is known.
_handle_progress_calls_by_fragment(d) ==
    IF d.status = "downloading"
    THEN LET downloaded == d.downloaded_bytes
             total == IF d.total_bytes # 0 THEN d.total_bytes
                      ELSE d.total_bytes_estimate
         IN  IF d.fragment_count > 0
             THEN LET percentage == (d.fragment_index * Pct(100)) \div d.fragment_count
                  IN  <<IF percentage < Pct(99) THEN percentage ELSE Pct(99)>>
             ELSE IF total > 0
             THEN LET percentage == (downloaded * Pct(100)) \div total
                  IN  <<IF percentage < Pct(99) THEN percentage ELSE Pct(99)>>
             ELSE <<>>
    ELSE IF d.status = "finished" THEN <<Pct(100)>>
    ELSE <<>>

\* _handle_progress with a callback: the values it passes to the callback,
\* one per call of it, in order.  Absent or None counters of the event
\* are 0.
_handle_progress_calls(d) ==
    IF d.status = "downloading"
    THEN LET downloaded == d.downloaded_bytes
             total == IF d.total_bytes # 0 THEN d.total_bytes
                      ELSE d.total_bytes_estimate
         IN  IF total > 0
             THEN LET percentage == (downloaded * Pct(100)) \div total
                  IN  <<IF percentage < Pct(99) THEN percentage ELSE Pct(99)>>
             ELSE IF d.fragment_count > 0
             THEN LET percentage == (d.fragment_index * Pct(100)) \div d.fragment_count
                  IN  <<IF percentage < Pct(99) THEN percentage ELSE Pct(99)>>
             ELSE <<>>
    ELSE IF d.status = "finished" THEN <<Pct(100)>>
    ELSE <<>>

\* _handle_progress: the value passed to the callback, or NoCall when the
\* callback is not called.
_handle_progress(d) ==
    LET passed == _handle_progress_calls(d)
    IN  IF passed = <<>> THEN NoCall ELSE passed[1]

\* A download_video without the clause of lines 172-178: an exception
\* other than DownloadError leaves it.
download_video_reraises(engine, files) ==
    IF engine.raised = "DownloadError"
    THEN DownloadResult(FALSE, NoPath, engine.text, 0)
    ELSE IF engine.raised = "Exception"
    THEN DownloadRaises(engine.text)
    ELSE IF os_path_exists(files[Exts[1]])
    THEN DownloadResult(TRUE, Exts[1], None, files[Exts[1]].size)
    ELSE LET found == {i \in DOMAIN Exts : os_path_exists(files[Exts[i]])}
         IN  IF found # {}
             THEN LET first == CHOOSE i \in found : \A j \in found : i <= j
                  IN  DownloadResult(TRUE, Exts[first], None, files[Exts[first]].size)
             ELSE DownloadResult(FALSE, NoPath, <<"TXT_FILE_NOT_CREATED">>, 0)

\* A download_video that looks at output_path only.
download_video_expected_only(engine, files) ==
    IF engine.raised = "DownloadError"
    THEN DownloadResult(FALSE, NoPath, engine.text, 0)
    ELSE IF engine.raised = "Exception"
    THEN DownloadResult(FALSE, NoPath, engine.text, 0)
    ELSE IF os_path_exists(files[Exts[1]])
    THEN DownloadResult(TRUE, Exts[1], None, files[Exts[1]].size)
    ELSE DownloadResult(FALSE, NoPath, <<"TXT_FILE_NOT_CREATED">>, 0)

\* download_video after ydl.download: engine says how the engine ended
\* (raised is "no", "DownloadError" or "Exception", text is str(e)); files
\* is the state of base_path + ext for each extension.
download_video(engine, files) ==
    IF engine.raised = "DownloadError"
    THEN DownloadResult(FALSE, NoPath, engine.text, 0)
    ELSE IF engine.raised = "Exception"
    THEN DownloadResult(FALSE, NoPath, engine.text, 0)
    ELSE IF os_path_exists(files[Exts[1]])
    THEN DownloadResult(TRUE, Exts[1], None, files[Exts[1]].size)
    ELSE LET found == {i \in DOMAIN Exts : os_path_exists(files[Exts[i]])}
         IN  IF found # {}
             THEN LET first == CHOOSE i \in found : \A j \in found : i <= j
                  IN  DownloadResult(TRUE, Exts[first], None, files[Exts[first]].size)
             ELSE DownloadResult(FALSE, NoPath, <<"TXT_FILE_NOT_CREATED">>, 0)

(***************************************************************************)
(* progress.py                                                             *)
(***************************************************************************)
\* An update_downloading_percent whose line 193 is `max(0, percent)`.
DownloadingPercentText_no_ceiling(percent) ==
    LET clamped == IF percent < 0 THEN 0 ELSE percent
    IN  <<"TXT_DOWNLOADING_PCT">> \o DecStr(RoundHalfEven(clamped, Pct(1))) \o <<"%">>

\* The text update_downloading_percent writes (lines 193-194):
\* max(0, min(100, percent)) formatted with `.0f`.
DownloadingPercentText(percent) ==
    LET clamped == IF percent > Pct(100) THEN Pct(100)
                   ELSE IF percent < 0 THEN 0 ELSE percent
    IN  <<"TXT_DOWNLOADING_PCT">> \o DecStr(RoundHalfEven(clamped, Pct(1))) \o <<"%">>

\* An update_progress without the except clause of lines 120-123.
update_progress_raises(res) == [raised |-> ~res.ok, ret |-> res.ok]

\* What a ProgressManager method that catches does with the transport's
\* outcome: update_progress and delete_progress return a boolean.
update_progress(res) == [raised |-> FALSE, ret |-> res.ok]

\* A delete_progress without the except clause of lines 151-153.
delete_progress_raises(res) == [raised |-> ~res.ok, ret |-> res.ok]

delete_progress(res) == [raised |-> FALSE, ret |-> res.ok]

\* send_progress does not catch: a transport failure leaves it as an
\* exception.
send_progress(res) == [raised |-> ~res.ok, ret |-> res.ok]

(***************************************************************************)
(* The state.  Everything a request owns is indexed by the request; a      *)
(* request's chat identifier, status message identifier and unique base    *)
(* path are the request's number.                                          *)
(***************************************************************************)
Reqs == {1, 2}

\* The coroutine of a request: handle_message, or the caller of a function
\* called on its own.
Handler(r) == <<"handle_message", r>>

\* The k-th task sync_progress_callback created for request r.
UpdateTask(r, k) == <<"update_progress_callback", r, k>>

\* No coroutine is executing: the scheduler is between two steps.
Idle == <<>>

VARIABLES
    pc,               \* pc[r]: where the coroutine of request r stands
    ready,            \* the scheduler's queue of coroutines ready to run
    running,          \* the coroutine that is executing, or Idle
    tasks,            \* tasks[r]: the update tasks of r, in creation order
    calls,            \* transport calls issued and not yet answered
    awaitRes,         \* awaitRes[r]: what the transport answered to r's handler
    msg,              \* msg[r]: the status message of r as the chat shows it
    replies,          \* replies[r]: texts delivered to the chat by reply_text
    videos,           \* videos[r]: videos delivered to the chat
    progress_msg_id,  \* handle_message's progress_msg_id (0 is None)
    last_percent,     \* handle_message's last_percent[0]
    events,           \* events[r]: progress events the engine has reported
    result,           \* handle_message's result (the DownloadResult)
    ydl,              \* ydl[r]: how ydl.download ended for r
    fs,               \* fs[b][ext]: the path with base b and extension ext
    sv,               \* sv[r]: the frame of send_video
    cleanups,         \* cleanups[r]: calls of cleanup_file
    escaped,          \* escaped[r]: an exception left the coroutine of r
    progressRet,      \* booleans the ProgressManager returned to the handler
    reported,         \* reported[r]: the error texts the handler has shown
    log,              \* log[r]: the operations of r in the order performed
    arg,              \* the arguments of a function called on its own
    rets              \* what the calls of that function returned, in order

vars == <<pc, ready, running, tasks, calls, awaitRes, msg, replies, videos,
          progress_msg_id, last_percent, events, result, ydl, fs, sv,
          cleanups, escaped, progressRet, reported, log, arg, rets>>

NoRes == [ok |-> TRUE, text |-> <<>>]

NoMsg == [kind |-> "none", text |-> <<>>]

NoResult == DownloadResult(FALSE, NoPath, None, 0)

\* ydl.download has not ended.
NotRun == [raised |-> "none", text |-> <<>>, files |-> NoFiles]

\* No function is called on its own.
NoArg == [fn |-> "none"]

NoFrame ==
    [caller |-> "none", file_path |-> NoPath, max_size |-> 0,
     entry |-> Absent, transport |-> FALSE, returned |-> FALSE,
     removed |-> FALSE, ret |-> <<FALSE, None>>]

(***************************************************************************)
(* Inputs.                                                                 *)
(***************************************************************************)
\* What parse_url returns for the message text: (None, UNKNOWN) or a URL
\* with its platform.
ParsedLinks ==
    {[url |-> NoPath, platform |-> "UNKNOWN"]}
        \cup {[url |-> "url", platform |-> p] : p \in {"YOUTUBE", "FACEBOOK", "INSTAGRAM"}}

\* An is_supported_platform that knows YouTube alone.
is_supported_platform_youtube_only(platform) == platform = "YOUTUBE"

\* url_parser.py line 98: `platform != Platform.UNKNOWN`
is_supported_platform(platform) == platform # "UNKNOWN"

\* Progress events of the engine: 3% and 5% of a known or estimated total,
\* the terminal event, and an event of another status.
ProgressEvents ==
    {[status |-> "downloading", downloaded_bytes |-> 6, total_bytes |-> 200,
      total_bytes_estimate |-> 0, fragment_index |-> 0, fragment_count |-> 0],
     [status |-> "downloading", downloaded_bytes |-> 10, total_bytes |-> 0,
      total_bytes_estimate |-> 200, fragment_index |-> 0, fragment_count |-> 0],
     [status |-> "finished", downloaded_bytes |-> 200, total_bytes |-> 200,
      total_bytes_estimate |-> 0, fragment_index |-> 0, fragment_count |-> 0],
     [status |-> "error", downloaded_bytes |-> 0, total_bytes |-> 0,
      total_bytes_estimate |-> 0, fragment_index |-> 0, fragment_count |-> 0]}

\* Sizes of the files the engine writes: empty, under the ceiling, over it.
EngineSizes == {0, 10 * MB, 60 * MB}

\* The files the engine leaves at base_path + ext when it returns.
EngineFileSets ==
    {{}, {".mp4"}, {".mkv"}, {".mp4", ".mkv"}, {".webm", ".m4a"}}

FilesOf(present, size) ==
    [e \in ExtSet |-> IF e \in present THEN RegularFile(size) ELSE Absent]

\* How the engine ends: it returns, or raises DownloadError or another
\* exception, having written nothing or a partial output file.
EngineOutcomes ==
    {[raised |-> "no", text |-> <<>>, files |-> FilesOf(p, s)] :
        p \in EngineFileSets, s \in EngineSizes}
    \cup {[raised |-> "DownloadError", text |-> <<"ERR_VIDEO_UNAVAILABLE">>,
           files |-> FilesOf(p, 10 * MB)] : p \in {{}, {".mp4"}}}
    \cup {[raised |-> "Exception", text |-> t, files |-> NoFiles] :
           t \in {<<"ERR_UNSUPPORTED_URL">>, <<>>}}

\* str(e) of the exceptions the transport raises.
TransportErrors == {<<"ERR_TIMED_OUT">>, <<"ERR_FORBIDDEN">>}

\* str(e) of the exception open() raises on a regular file, or None.
OpenErrors == {None, <<"ERR_PERMISSION_DENIED">>}

\* Two requests are in flight at once.  Each is then given the inputs of
\* an ordinary download: a YouTube address, one progress event that
\* passes the throttle, an engine that writes a 10 MB .mp4 or raises
\* DownloadError, a file system that does as asked, and a transport that
\* carries a call out or times out.
TwoRequests == arg.fn = "two_requests"

LinksGiven ==
    IF TwoRequests THEN {l \in ParsedLinks : l.platform = "YOUTUBE"} ELSE ParsedLinks

EventsGiven ==
    IF TwoRequests
    THEN {d \in ProgressEvents : d.status = "finished" \/ d.total_bytes_estimate > 0}
    ELSE ProgressEvents

EventsReported == IF TwoRequests THEN 1 ELSE MaxEvents

OutcomesGiven ==
    IF TwoRequests
    THEN {e \in EngineOutcomes :
            \/ e.raised = "no" /\ e.files = FilesOf({".mp4"}, 10 * MB)
            \/ e.raised = "DownloadError" /\ e.files = NoFiles}
    ELSE EngineOutcomes

FaultsGiven == IF TwoRequests THEN {FALSE} ELSE BOOLEAN

OpenErrorsGiven == IF TwoRequests THEN {None} ELSE OpenErrors

TransportErrorsGiven ==
    IF TwoRequests THEN {<<"ERR_TIMED_OUT">>} ELSE TransportErrors

(***************************************************************************)
(* The scheduler and the transport.                                        *)
(***************************************************************************)
\* An event loop that takes the coroutine at the head of its queue while
\* another is executing, as it could were the download run in a thread.
Scheduled_during_download(c) == ready # <<>> /\ Head(ready) = c

\* Coroutine c is the one the scheduler runs next.
Scheduled(c) == running = Idle /\ ready # <<>> /\ Head(ready) = c

\* A handler that keeps its session in module-level variables, where the
\* first request has put its own.
StatusTarget_first(r) == [chat_id |-> 1, message_id |-> progress_msg_id[1]]

\* The chat and the message the coroutines of request r name when they
\* edit or delete the status message: chat_id and progress_msg_id of
\* handle_message (bot.py lines 133, 166, 170), which update_progress_callback
\* reads as a closure (line 179).
StatusTarget(r) == [chat_id |-> r, message_id |-> progress_msg_id[r]]

\* A call of the transport made by coroutine `by`, with the chat and the
\* message it names.
Call(by, op, text) ==
    [by |-> by, op |-> op, text |-> text,
     target |-> IF op \in {"edit_message_text", "delete_message"}
                THEN StatusTarget(by[2])
                ELSE [chat_id |-> by[2], message_id |-> 0]]

\* The status message a call names: the message with identifier m in
\* chat m is the one the send_message of request m created; 0 when the
\* call names no such message.
Named(c) ==
    IF c.target.message_id \in Reqs /\ c.target.chat_id = c.target.message_id
    THEN c.target.message_id ELSE 0

\* The calls whose exception the code reads the description of (bot.py line
\* 226 for send_message, sender.py line 168 for send_video); elsewhere it is
\* only logged.
ReadsDescription == {"send_message", "send_video"}

\* Whether the chat can carry out call c.
CanSucceed(c) ==
    LET m == Named(c)
    IN  CASE c.op = "edit_message_text" ->
                m # 0 /\ msg[m].kind = "live" /\ msg[m].text # c.text
          [] c.op = "delete_message" -> m # 0 /\ msg[m].kind = "live"
          [] OTHER -> TRUE

\* The transport answers call c: the chat carries it out, or the call
\* raises; the coroutine awaiting it becomes ready.
TransportReturns ==
    /\ running = Idle
    /\ \E c \in calls :
        \E ok \in BOOLEAN, e \in TransportErrorsGiven :
            LET r == c.by[2]
            IN  /\ ok => CanSucceed(c)
                /\ calls' = calls \ {c}
                /\ msg' = IF ~ok THEN msg
                          ELSE CASE c.op = "send_message" ->
                                      [msg EXCEPT ![r] = [kind |-> "live", text |-> c.text]]
                                 [] c.op = "edit_message_text" ->
                                      [msg EXCEPT ![Named(c)].text = c.text]
                                 [] c.op = "delete_message" ->
                                      [msg EXCEPT ![Named(c)] =
                                          [kind |-> "deleted", text |-> <<>>]]
                                 [] OTHER -> msg
                /\ replies' = IF ok /\ c.op = "reply_text"
                              THEN [replies EXCEPT ![r] = Append(@, c.text)]
                              ELSE replies
                /\ videos' = IF ok /\ c.op = "send_video"
                             THEN [videos EXCEPT ![r] = @ + 1]
                             ELSE videos
                /\ awaitRes' = IF c.by = Handler(r)
                               THEN [awaitRes EXCEPT ![r] =
                                       [ok |-> ok,
                                        text |-> IF ~ok /\ c.op \in ReadsDescription
                                                 THEN e ELSE <<>>]]
                               ELSE awaitRes
                /\ ready' = Append(ready, c.by)
    /\ UNCHANGED <<arg, rets, ydl, pc, running, tasks, progress_msg_id, last_percent, events,
                   result, fs, sv, cleanups, escaped, progressRet, reported, log>>

(***************************************************************************)
(* bot.py: handle_message.  Each action is the code the coroutine runs     *)
(* from one suspension point to the next; where such a stretch is split    *)
(* into several actions, `running` keeps every other coroutine from        *)
(* running in between, as the single-threaded scheduler does.              *)
(***************************************************************************)
\* The except clause of lines 225-232 for an exception described by e: the
\* call it awaits and where the handler then stands.
ExceptClause(r, e) ==
    LET error_msg == get_user_friendly_error(e)
    IN  IF progress_msg_id[r] # 0
        THEN [op |-> "edit_message_text", pc |-> "report_exception",
              text |-> <<"ERROR_PREFIX">> \o error_msg]
        ELSE [op |-> "reply_text", pc |-> "reply_error",
              text |-> <<"ERROR_PREFIX">> \o error_msg]

\* The handler of r enters the except clause and awaits its call.
RunExceptClause(r, e) ==
    LET x == ExceptClause(r, e)
    IN  /\ calls' = calls \cup {Call(Handler(r), x.op, x.text)}
        /\ pc' = [pc EXCEPT ![r] = x.pc]
        /\ reported' = [reported EXCEPT ![r] = Append(@, x.text)]
        /\ log' = [log EXCEPT ![r] = Append(@, "except")]

\* What parse_url found, as the log keeps it.
ParsedAs(link) == IF link.url = NoPath THEN "no_url" ELSE "url"

\* Lines 139-170 without the test of line 142: the pipeline starts whatever
\* parse_url returned.
after_parse_url_unguarded(link) ==
    [op |-> "send_message", text |-> <<"TXT_DOWNLOADING">>,
     pc |-> "send_downloading", tag |-> "send_downloading"]

\* Lines 139-170: the call handle_message awaits first, given what
\* parse_url returned.
after_parse_url(link) ==
    IF link.url = NoPath
    THEN [op |-> "reply_text", text |-> <<"TXT_GUIDANCE">>,
          pc |-> "reply_guidance", tag |-> "guidance"]
    ELSE IF ~is_supported_platform(link.platform)
    THEN [op |-> "reply_text", text |-> <<"TXT_UNSUPPORTED">>,
          pc |-> "reply_unsupported", tag |-> "unsupported"]
    ELSE [op |-> "send_message", text |-> <<"TXT_DOWNLOADING">>,
          pc |-> "send_downloading", tag |-> "send_downloading"]

\* Lines 132-170: parse the text, answer a text without a supported URL, or
\* send the status message.
HandleMessage(r) ==
    /\ Scheduled(Handler(r))
    /\ pc[r] = "start"
    /\ \E link \in LinksGiven :
        LET next == after_parse_url(link)
        IN  /\ calls' = calls \cup {Call(Handler(r), next.op, next.text)}
            /\ pc' = [pc EXCEPT ![r] = next.pc]
            /\ log' = [log EXCEPT ![r] = @ \o <<ParsedAs(link), next.tag>>]
    /\ ready' = Tail(ready)
    /\ UNCHANGED <<arg, rets, ydl, running, tasks, awaitRes, msg, replies, videos,
                   progress_msg_id, last_percent, events, result, fs, sv,
                   cleanups, escaped, progressRet, reported>>

\* A reply_text returns (lines 143-151, 155-162, 232): the handler ends, by
\* returning or, when the call raised, by the exception leaving it.
ReplyReturns(r) ==
    /\ Scheduled(Handler(r))
    /\ pc[r] \in {"reply_guidance", "reply_unsupported", "reply_error"}
    /\ escaped' = [escaped EXCEPT ![r] = ~awaitRes[r].ok]
    /\ pc' = [pc EXCEPT ![r] = "done"]
    /\ awaitRes' = [awaitRes EXCEPT ![r] = NoRes]
    /\ ready' = Tail(ready)
    /\ UNCHANGED <<arg, rets, ydl, running, tasks, calls, msg, replies, videos,
                   progress_msg_id, last_percent, events, result, fs, sv,
                   cleanups, progressRet, reported, log>>

\* send_downloading returns (lines 170-192): the identifier is recorded and
\* the download begins, or the exception of send_progress reaches the
\* except clause.
StartDownload(r) ==
    /\ Scheduled(Handler(r))
    /\ pc[r] = "send_downloading"
    /\ LET sent == send_progress(awaitRes[r])
       IN  IF sent.raised
           THEN /\ RunExceptClause(r, awaitRes[r].text)
                /\ UNCHANGED <<running, progress_msg_id, last_percent>>
           ELSE /\ progress_msg_id' = [progress_msg_id EXCEPT ![r] = r]
                /\ last_percent' = [last_percent EXCEPT ![r] = 0]
                /\ pc' = [pc EXCEPT ![r] = "download_video"]
                /\ running' = Handler(r)
                /\ log' = [log EXCEPT ![r] = Append(@, "download_video")]
                /\ UNCHANGED <<calls, reported>>
    /\ awaitRes' = [awaitRes EXCEPT ![r] = NoRes]
    /\ ready' = Tail(ready)
    /\ UNCHANGED <<arg, rets, ydl, tasks, msg, replies, videos, events, result, fs, sv,
                   cleanups, escaped, progressRet>>

\* What asyncio does for sync_progress_callback: the loop is running (the
\* case inside a handler), a loop exists that is not running,
\* get_event_loop raises, or create_task raises.
LoopStates == {"running", "not_running", "get_event_loop_raises", "create_task_raises"}

\* A sync_progress_callback without its try statement.
sync_progress_callback_unguarded(loop) ==
    [raised |-> loop \in {"get_event_loop_raises", "create_task_raises"},
     queued |-> loop = "running"]

\* sync_progress_callback (bot.py lines 181-189): whether it raises and
\* whether an update task was queued.
sync_progress_callback(loop) ==
    [raised |-> FALSE, queued |-> loop = "running"]

\* ydl.download with a progress hook: an exception the hook raises ends
\* the download and leaves ydl.download; otherwise the engine ends as
\* engine says.
ydl_download(engine, hookRaised) ==
    IF hookRaised
    THEN [raised |-> "Exception", text |-> <<"ERR_NO_RUNNING_LOOP">>, files |-> NoFiles]
    ELSE engine

\* The engine reports a progress event inside ydl.download (downloader.py
\* line 132): _handle_progress and sync_progress_callback (bot.py lines
\* 182-189) run in the handler's own step; the scheduler is running, so
\* create_task queues an update task.
EngineProgress(r) ==
    /\ running = Handler(r)
    /\ pc[r] = "download_video"
    /\ events[r] < EventsReported
    /\ \E d \in EventsGiven :
        LET percent == _handle_progress(d)
        IN  IF percent = NoCall \/ ~sync_progress_callback("running").queued
            THEN UNCHANGED <<tasks, ready>>
            ELSE /\ tasks' = [tasks EXCEPT ![r] =
                                Append(@, [percent |-> percent, pc |-> "new"])]
                 /\ ready' = Append(ready, UpdateTask(r, Len(tasks[r]) + 1))
    /\ events' = [events EXCEPT ![r] = @ + 1]
    /\ UNCHANGED <<arg, rets, ydl, pc, running, calls, awaitRes, msg, replies, videos,
                   progress_msg_id, last_percent, result, fs, sv, cleanups,
                   escaped, progressRet, reported, log>>

\* The base of the paths request r's download writes: output_dir and the
\* uuid its call of download_video drew (downloader.py lines 124-125); no
\* two calls draw the same.
base_path(r) == r

\* `result.error_message or "Unknown error"`
ErrorMessageOr(error_message) ==
    IF error_message = None \/ Render(error_message) = <<>>
    THEN <<"TXT_UNKNOWN_ERROR">>
    ELSE error_message

\* A handler that goes on to send whatever download_video returned.
download_failed_ignored(res) == FALSE

\* `if not result.success` (line 200)
download_failed(res) == ~res.success

\* download_video returns (lines 193-207): a failure is classified and
\* written to the status message, a success writes the "sending" text.
DownloadReturns(r) ==
    /\ running = Handler(r)
    /\ pc[r] = "download_video"
    /\ \E engine \in OutcomesGiven :
        LET res == download_video(engine, engine.files)
        IN  /\ fs' = [fs EXCEPT ![base_path(r)] = engine.files]
            /\ ydl' = [ydl EXCEPT ![r] = engine]
            /\ result' = [result EXCEPT ![r] = res]
            /\ IF res.raised
               THEN RunExceptClause(r, res.error_message)
               ELSE IF download_failed(res)
               THEN LET error_msg ==
                            get_user_friendly_error(ErrorMessageOr(res.error_message))
                        text == <<"ERROR_PREFIX">> \o error_msg
                    IN  /\ calls' = calls \cup
                                {Call(Handler(r), "edit_message_text", text)}
                        /\ pc' = [pc EXCEPT ![r] = "report_error"]
                        /\ reported' = [reported EXCEPT ![r] = Append(@, text)]
                        /\ log' = [log EXCEPT ![r] = Append(@, "error")]
               ELSE /\ calls' = calls \cup
                            {Call(Handler(r), "edit_message_text", <<"TXT_SENDING">>)}
                    /\ pc' = [pc EXCEPT ![r] = "update_sending"]
                    /\ log' = [log EXCEPT ![r] = Append(@, "update_sending")]
                    /\ UNCHANGED reported
    /\ running' = Idle
    /\ UNCHANGED <<arg, rets, ready, tasks, awaitRes, msg, replies, videos,
                   progress_msg_id, last_percent, events, sv, cleanups,
                   escaped, progressRet>>

\* update_sending returns (lines 207-215): send_video is called with the
\* downloaded path and the default ceiling.
CallSendVideo(r) ==
    /\ Scheduled(Handler(r))
    /\ pc[r] = "update_sending"
    /\ LET updated == update_progress(awaitRes[r])
       IN  IF updated.raised
           THEN /\ RunExceptClause(r, awaitRes[r].text)
                /\ UNCHANGED <<running, sv, progressRet>>
           ELSE /\ progressRet' = [progressRet EXCEPT ![r] = Append(@, updated.ret)]
                /\ sv' = [sv EXCEPT ![r] =
                            [NoFrame EXCEPT !.caller = "handle_message",
                                            !.file_path = result[r].file_path,
                                            !.max_size = DEFAULT_MAX_FILE_SIZE]]
                /\ pc' = [pc EXCEPT ![r] = "send_video:entry"]
                /\ running' = Handler(r)
                /\ UNCHANGED <<calls, reported, log>>
    /\ awaitRes' = [awaitRes EXCEPT ![r] = NoRes]
    /\ ready' = Tail(ready)
    /\ UNCHANGED <<arg, rets, ydl, tasks, msg, replies, videos, progress_msg_id, last_percent,
                   events, result, fs, cleanups, escaped>>

\* Lines 217-223 with the deletion on both branches.
after_send_video_always_deletes(success, error) ==
    [op |-> "delete_message", text |-> <<>>,
     pc |-> "delete_progress", tag |-> "delete_progress"]

\* A handler that, after a failed send, edits the status message and
\* calls send_video again.
after_send_video_retries(success, error) ==
    IF success
    THEN [op |-> "delete_message", text |-> <<>>,
          pc |-> "delete_progress", tag |-> "delete_progress"]
    ELSE [op |-> "edit_message_text", text |-> <<"ERROR_PREFIX">> \o error,
          pc |-> "update_sending", tag |-> "update_sending"]

\* A handler that, after a failed send, writes the error and then waits
\* for an event that nothing sets.
after_send_video_waits(success, error) ==
    IF success
    THEN [op |-> "delete_message", text |-> <<>>,
          pc |-> "delete_progress", tag |-> "delete_progress"]
    ELSE [op |-> "edit_message_text", text |-> <<"ERROR_PREFIX">> \o error,
          pc |-> "wait", tag |-> "error"]

\* Lines 217-223: what the handler does with the pair send_video returned.
after_send_video(success, error) ==
    IF success
    THEN [op |-> "delete_message", text |-> <<>>,
          pc |-> "delete_progress", tag |-> "delete_progress"]
    ELSE [op |-> "edit_message_text", text |-> <<"ERROR_PREFIX">> \o error,
          pc |-> "report_error", tag |-> "error"]

\* send_video has returned to the handler (lines 217-223): the status
\* message is deleted on success and overwritten with the error otherwise.
AfterSendVideo(r) ==
    /\ running = Handler(r)
    /\ pc[r] = "send_video:returned"
    /\ sv[r].caller = "handle_message"
    /\ LET then == after_send_video(sv[r].ret[1], sv[r].ret[2])
       IN  /\ calls' = calls \cup {Call(Handler(r), then.op, then.text)}
           /\ pc' = [pc EXCEPT ![r] = then.pc]
           /\ log' = [log EXCEPT ![r] = Append(@, then.tag)]
           /\ reported' = IF then.tag = "error"
                          THEN [reported EXCEPT ![r] = Append(@, then.text)]
                          ELSE reported
    /\ running' = Idle
    /\ UNCHANGED <<arg, rets, ydl, ready, tasks, awaitRes, msg, replies, videos,
                   progress_msg_id, last_percent, events, result, fs, sv,
                   cleanups, escaped, progressRet>>

\* The last call on the status message returns (lines 202-204, 219-223,
\* 230): the handler ends.  An exception of a call inside the try block
\* would reach the except clause, one of the call of line 230 would leave
\* the handler.
StatusCallReturns(r) ==
    /\ Scheduled(Handler(r))
    /\ pc[r] \in {"report_error", "delete_progress", "report_exception"}
    /\ LET done == IF pc[r] = "delete_progress"
                   THEN delete_progress(awaitRes[r])
                   ELSE update_progress(awaitRes[r])
       IN  IF done.raised /\ pc[r] # "report_exception"
           THEN /\ RunExceptClause(r, awaitRes[r].text)
                /\ UNCHANGED <<escaped, progressRet>>
           ELSE /\ escaped' = [escaped EXCEPT ![r] = done.raised]
                /\ progressRet' = [progressRet EXCEPT ![r] =
                                     IF done.raised THEN @ ELSE Append(@, done.ret)]
                /\ pc' = [pc EXCEPT ![r] = "done"]
                /\ UNCHANGED <<calls, reported, log>>
    /\ awaitRes' = [awaitRes EXCEPT ![r] = NoRes]
    /\ ready' = Tail(ready)
    /\ UNCHANGED <<arg, rets, ydl, running, tasks, msg, replies, videos, progress_msg_id,
                   last_percent, events, result, fs, sv, cleanups>>

(***************************************************************************)
(* bot.py: update_progress_callback, the body of an update task.           *)
(***************************************************************************)
\* The condition of line 177 as its comment words it: more than 5 points.
significant_change_strict(percent, last) ==
    percent - last > Pct(5) \/ percent >= Pct(100)

\* A condition of line 177 on the distance, whichever way the value moved.
significant_change_either_way(percent, last) ==
    percent - last >= Pct(5) \/ last - percent >= Pct(5) \/ percent >= Pct(100)

\* The condition of line 177.
significant_change(percent, last) ==
    percent - last >= Pct(5) \/ percent >= Pct(100)

\* Lines 175-179 up to the await: the throttle, then the edit of the status
\* message with the percent text.
UpdateTaskRuns(r, k) ==
    /\ Scheduled(UpdateTask(r, k))
    /\ tasks[r][k].pc = "new"
    /\ LET percent == tasks[r][k].percent
       IN  IF significant_change(percent, last_percent[r])
           THEN /\ last_percent' = [last_percent EXCEPT ![r] = percent]
                /\ calls' = calls \cup
                        {Call(UpdateTask(r, k), "edit_message_text",
                              DownloadingPercentText(percent))}
                /\ tasks' = [tasks EXCEPT ![r][k].pc = "await"]
                /\ log' = [log EXCEPT ![r] = Append(@, "percent")]
           ELSE /\ tasks' = [tasks EXCEPT ![r][k].pc = "done"]
                /\ UNCHANGED <<last_percent, calls, log>>
    /\ ready' = Tail(ready)
    /\ UNCHANGED <<arg, rets, ydl, pc, running, awaitRes, msg, replies, videos,
                   progress_msg_id, events, result, fs, sv, cleanups, escaped,
                   progressRet, reported>>

\* The edit of an update task returns: the task ends.
UpdateTaskEnds(r, k) ==
    /\ Scheduled(UpdateTask(r, k))
    /\ tasks[r][k].pc = "await"
    /\ tasks' = [tasks EXCEPT ![r][k].pc = "done"]
    /\ ready' = Tail(ready)
    /\ UNCHANGED <<arg, rets, ydl, pc, running, calls, awaitRes, msg, replies, videos,
                   progress_msg_id, last_percent, events, result, fs, sv,
                   cleanups, escaped, progressRet, reported, log, arg, rets>>

(***************************************************************************)
(* sender.py: send_video, called by handle_message or on its own.          *)
(***************************************************************************)
\* Lines 137-162 and, when the function returns without awaiting, the
\* finally clause: the checks, then bot.send_video or the return.
send_video_begin(r) ==
    /\ running = Handler(r)
    /\ pc[r] = "send_video:entry"
    /\ \E statFails \in FaultsGiven, openError \in OpenErrorsGiven,
          removeFails \in FaultsGiven :
        LET f == fs[base_path(r)][sv[r].file_path]
            gate == send_video_gate(f, sv[r].max_size, statFails, openError)
            cleaned == cleanup_file(f, removeFails)
        IN  IF gate.go
            THEN /\ calls' = calls \cup {Call(Handler(r), "send_video", <<>>)}
                 /\ sv' = [sv EXCEPT ![r].entry = f, ![r].transport = TRUE]
                 /\ pc' = [pc EXCEPT ![r] = "send_video:await"]
                 /\ running' = Idle
                 /\ log' = [log EXCEPT ![r] = Append(@, "send_video")]
                 /\ UNCHANGED <<fs, cleanups>>
            ELSE /\ fs' = [fs EXCEPT ![base_path(r)][sv[r].file_path] = cleaned.file]
                 /\ cleanups' = [cleanups EXCEPT ![r] = @ + 1]
                 /\ sv' = [sv EXCEPT ![r].entry = f, ![r].returned = TRUE,
                                     ![r].removed = cleaned.ret,
                                     ![r].ret = send_video_finally(gate.ret,
                                                                   cleaned.ret)]
                 /\ pc' = [pc EXCEPT ![r] = "send_video:returned"]
                 /\ log' = [log EXCEPT ![r] = Append(@, "cleanup_file")]
                 /\ UNCHANGED <<calls, running>>
    /\ UNCHANGED <<arg, rets, ydl, ready, tasks, awaitRes, msg, replies, videos,
                   progress_msg_id, last_percent, events, result, escaped,
                   progressRet, reported>>

\* Lines 162-175: bot.send_video has returned or raised; the finally clause
\* runs and send_video returns.
send_video_resume(r) ==
    /\ Scheduled(Handler(r))
    /\ pc[r] = "send_video:await"
    /\ \E removeFails \in FaultsGiven :
        LET cleaned == cleanup_file(fs[base_path(r)][sv[r].file_path], removeFails)
        IN  /\ fs' = [fs EXCEPT ![base_path(r)][sv[r].file_path] = cleaned.file]
            /\ cleanups' = [cleanups EXCEPT ![r] = @ + 1]
            /\ sv' = [sv EXCEPT ![r].returned = TRUE,
                                ![r].removed = cleaned.ret,
                                ![r].ret = send_video_finally(
                                              send_video_result(awaitRes[r]),
                                              cleaned.ret)]
    /\ pc' = [pc EXCEPT ![r] = "send_video:returned"]
    /\ log' = [log EXCEPT ![r] = Append(@, "cleanup_file")]
    /\ awaitRes' = [awaitRes EXCEPT ![r] = NoRes]
    /\ running' = Handler(r)
    /\ ready' = Tail(ready)
    /\ UNCHANGED <<arg, rets, ydl, tasks, calls, msg, replies, videos, progress_msg_id,
                   last_percent, events, result, escaped, progressRet,
                   reported>>

\* send_video returns to a caller other than handle_message.
send_video_returns(r) ==
    /\ running = Handler(r)
    /\ pc[r] = "send_video:returned"
    /\ sv[r].caller = "caller"
    /\ pc' = [pc EXCEPT ![r] = "done"]
    /\ running' = Idle
    /\ UNCHANGED <<arg, rets, ydl, ready, tasks, calls, awaitRes, msg, replies, videos,
                   progress_msg_id, last_percent, events, result, fs, sv,
                   cleanups, escaped, progressRet, reported, log, arg, rets>>

(***************************************************************************)
(* Specifications.                                                         *)
(***************************************************************************)
\* What no request has touched yet.
Quiet ==
    /\ tasks = [r \in Reqs |-> <<>>]
    /\ calls = {}
    /\ awaitRes = [r \in Reqs |-> NoRes]
    /\ msg = [r \in Reqs |-> NoMsg]
    /\ replies = [r \in Reqs |-> <<>>]
    /\ videos = [r \in Reqs |-> 0]
    /\ progress_msg_id = [r \in Reqs |-> 0]
    /\ last_percent = [r \in Reqs |-> 0]
    /\ events = [r \in Reqs |-> 0]
    /\ result = [r \in Reqs |-> NoResult]
    /\ ydl = [r \in Reqs |-> NotRun]
    /\ cleanups = [r \in Reqs |-> 0]
    /\ escaped = [r \in Reqs |-> FALSE]
    /\ progressRet = [r \in Reqs |-> <<>>]
    /\ reported = [r \in Reqs |-> <<>>]
    /\ log = [r \in Reqs |-> <<>>]
    /\ rets = <<>>

\* One text message has arrived and its handler is about to run.
Init ==
    /\ Quiet
    /\ pc = [r \in Reqs |-> IF r = 1 THEN "start" ELSE "off"]
    /\ ready = <<Handler(1)>>
    /\ running = Idle
    /\ fs = [r \in Reqs |-> NoFiles]
    /\ sv = [r \in Reqs |-> NoFrame]
    /\ arg = NoArg

Next ==
    \/ TransportReturns
    \/ \E r \in Reqs :
        \/ HandleMessage(r)
        \/ ReplyReturns(r)
        \/ StartDownload(r)
        \/ EngineProgress(r)
        \/ DownloadReturns(r)
        \/ CallSendVideo(r)
        \/ send_video_begin(r)
        \/ send_video_resume(r)
        \/ AfterSendVideo(r)
        \/ StatusCallReturns(r)
        \/ \E k \in DOMAIN tasks[r] : UpdateTaskRuns(r, k) \/ UpdateTaskEnds(r, k)

Spec == Init /\ [][Next]_vars

\* The steps the coroutine of handle_message takes when the scheduler runs
\* it, from one suspension point to the next.
HandlerStep(r) ==
    \/ HandleMessage(r)
    \/ ReplyReturns(r)
    \/ StartDownload(r)
    \/ CallSendVideo(r)
    \/ send_video_begin(r)
    \/ send_video_resume(r)
    \/ AfterSendVideo(r)
    \/ StatusCallReturns(r)

\* The steps of the update tasks of r.
TaskStep(r) ==
    \E k \in DOMAIN tasks[r] : UpdateTaskRuns(r, k) \/ UpdateTaskEnds(r, k)

\* The handler of r is the coroutine that runs next or is running, at a
\* point of handle_message or send_video from which it goes on.
HandlerCanStep(r) ==
    \/ /\ Scheduled(Handler(r))
       /\ pc[r] \in {"start", "reply_guidance", "reply_unsupported",
                     "reply_error", "send_downloading", "update_sending",
                     "send_video:await", "report_error", "delete_progress",
                     "report_exception"}
    \/ /\ running = Handler(r)
       /\ \/ pc[r] = "send_video:entry"
          \/ pc[r] = "send_video:returned" /\ sv[r].caller = "handle_message"

\* download_video is executing for r.
Downloading(r) == running = Handler(r) /\ pc[r] = "download_video"

\* The pipeline where every transport call and the download call end, and
\* the event loop runs the coroutine at the head of its queue: a handler
\* that can step does, and a download that is executing returns.
SpecLive ==
    /\ Spec
    /\ WF_vars(TransportReturns)
    /\ \A r \in Reqs :
        /\ WF_vars(TaskStep(r))
        /\ []<>(~HandlerCanStep(r)) \/ []<><<HandlerStep(r)>>_vars
        /\ []<>(~Downloading(r)) \/ []<><<DownloadReturns(r)>>_vars

\* Two text messages have arrived and the host runs their handlers
\* concurrently: both are in the queue of the event loop.
InitTwo ==
    /\ Quiet
    /\ pc = [r \in Reqs |-> "start"]
    /\ ready \in {<<Handler(1), Handler(2)>>, <<Handler(2), Handler(1)>>}
    /\ running = Idle
    /\ fs = [r \in Reqs |-> NoFiles]
    /\ sv = [r \in Reqs |-> NoFrame]
    /\ arg = [fn |-> "two_requests"]

SpecTwo == InitTwo /\ [][Next]_vars

\* send_video called on its own, as its tests call it: on a path in any
\* state, with any ceiling.
SendFileStates ==
    {Absent, Directory}
        \cup {RegularFile(s) : s \in {0, 10 * MB, 50 * MB, 50 * MB + 1, 60 * MB}}

SendCeilings == {10 * MB, DEFAULT_MAX_FILE_SIZE, 60 * MB}

InitSend ==
    /\ Quiet
    /\ arg = NoArg
    /\ pc = [r \in Reqs |-> IF r = 1 THEN "send_video:entry" ELSE "off"]
    /\ ready = <<>>
    /\ running = Handler(1)
    /\ \E f \in SendFileStates, m \in SendCeilings :
        /\ fs = [r \in Reqs |-> IF r = 1 THEN [NoFiles EXCEPT ![".mp4"] = f]
                                ELSE NoFiles]
        /\ sv = [r \in Reqs |->
                    IF r = 1
                    THEN [NoFrame EXCEPT !.caller = "caller", !.file_path = ".mp4",
                                         !.max_size = m]
                    ELSE NoFrame]

NextSend ==
    \/ TransportReturns
    \/ \E r \in Reqs :
        \/ send_video_begin(r)
        \/ send_video_resume(r)
        \/ send_video_returns(r)

SpecSend == InitSend /\ [][NextSend]_vars

(***************************************************************************)
(* The functions that are no coroutines, called on their own as their      *)
(* tests call them: arg holds the arguments, rets what was returned.       *)
(***************************************************************************)
\* Every variable but arg, rets and fs.
pipelineVars ==
    <<pc, ready, running, tasks, calls, awaitRes, msg, replies, videos,
      progress_msg_id, last_percent, events, result, ydl, sv, cleanups,
      escaped, progressRet, reported, log>>

\* The progress_dict values _handle_progress is called with: any status,
\* byte counters below, at and above the total, a total that is known,
\* estimated or unknown, and fragment counters.
ProgressDicts ==
    [status : {"downloading", "finished", "error"},
     downloaded_bytes : {0, 50, 99, 100, 150},
     total_bytes : {0, 100},
     total_bytes_estimate : {0, 200},
     fragment_index : {0, 1, 3},
     fragment_count : {0, 2}]

(***************************************************************************)
(* url_parser.py                                                           *)
(***************************************************************************)
\* The characters of the texts; the classes \w and \d of re on them.
Digits == {"0","1","2","3","4","5","6","7","8","9"}

WordChars ==
    {"a","b","c","d","e","f","g","h","i","j","k","l","m","n","o","p","q",
     "r","s","t","u","v","w","x","y","z","Q","_"} \cup Digits

Alphabet == WordChars \cup {"-", ".", "/", ":", "?", "=", " ", "\n"}

\* The elements regular expressions are made of: a literal, alternatives
\* tried in their order, and a greedy repetition of a class, one or more
\* times.
Lit(s) == [kind |-> "lit", s |-> s]

Alt(alts) == [kind |-> "alt", alts |-> alts]

Plus(class) == [kind |-> "plus", class |-> class]

\* (?:https?://)?
SCHEME ==
    Alt(<<<<"h","t","t","p","s",":","/","/">>,
          <<"h","t","t","p",":","/","/">>, <<>> >>)

\* (?:www\.)?
WWW == Alt(<<<<"w","w","w",".">>, <<>> >>)

\* [\w-]+
WORD_DASH == Plus(WordChars \cup {"-"})

\* \d+
DIGITS == Plus(Digits)

\* .+
ANY == Plus(Alphabet \ {"\n"})

PLATFORM_PATTERNS ==
    <<[platform |-> "YOUTUBE",
       patterns |-> <<
           <<SCHEME, WWW, Lit(
              <<"y","o","u","t","u","b","e",".","c","o","m","/","w","a","t",
                "c","h","?","v","=">>), WORD_DASH>>,
           <<SCHEME, WWW, Lit(
              <<"y","o","u","t","u","b","e",".","c","o","m","/","s","h","o",
                "r","t","s","/">>), WORD_DASH>>,
           <<SCHEME, WWW, Lit(
              <<"y","o","u","t","u",".","b","e","/">>), WORD_DASH>> >>],
      [platform |-> "FACEBOOK",
       patterns |-> <<
           <<SCHEME, WWW, Lit(
              <<"f","a","c","e","b","o","o","k",".","c","o","m","/">>), ANY, Lit(
              <<"/","v","i","d","e","o","s","/">>), DIGITS>>,
           <<SCHEME, WWW, Lit(
              <<"f","a","c","e","b","o","o","k",".","c","o","m","/","r","e",
                "e","l","/">>), DIGITS>>,
           <<SCHEME, WWW, Lit(
              <<"f","a","c","e","b","o","o","k",".","c","o","m","/","s","t",
                "o","r","i","e","s","/">>), DIGITS>>,
           <<SCHEME, Lit(
              <<"f","b",".","w","a","t","c","h","/">>), WORD_DASH>> >>],
      [platform |-> "INSTAGRAM",
       patterns |-> <<
           <<SCHEME, WWW, Lit(
              <<"i","n","s","t","a","g","r","a","m",".","c","o","m","/">>),
             Alt(<< <<"p">>, <<"r","e","e","l">>, <<"r","e","e","l","s">> >>),
             Lit(<<"/">>), WORD_DASH>>,
           <<SCHEME, WWW, Lit(
              <<"i","n","s","t","a","g","r","a","m",".","c","o","m","/","s",
                "t","o","r","i","e","s","/">>),
             Plus(WordChars \cup {".", "_"}), Lit(<<"/">>), DIGITS>> >>]>>

\* The characters of text from position p on begin with s.
HasAt(text, p, s) ==
    /\ p + Len(s) - 1 <= Len(text)
    /\ \A i \in 1..Len(s) : text[p + i - 1] = s[i]

\* The number of characters of class that text has in a row from p on.
RECURSIVE RunLength(_, _, _)
RunLength(text, p, class) ==
    IF p <= Len(text) /\ text[p] \in class
    THEN 1 + RunLength(text, p + 1, class)
    ELSE 0

\* The backtracking match of re: the elements of pattern from the k-th on
\* against text from position p on.  The position after the match, or 0
\* when there is none.
RECURSIVE MatchFrom(_, _, _, _)
RECURSIVE TryAlts(_, _, _, _, _)
RECURSIVE TryRuns(_, _, _, _, _)
MatchFrom(pattern, k, text, p) ==
    IF k > Len(pattern) THEN p
    ELSE CASE pattern[k].kind = "lit" ->
                IF HasAt(text, p, pattern[k].s)
                THEN MatchFrom(pattern, k + 1, text, p + Len(pattern[k].s))
                ELSE 0
           [] pattern[k].kind = "alt" -> TryAlts(pattern, k, text, p, 1)
           [] pattern[k].kind = "plus" ->
                TryRuns(pattern, k, text, p, RunLength(text, p, pattern[k].class))

\* The alternatives of element k from the j-th on, in their order.
TryAlts(pattern, k, text, p, j) ==
    IF j > Len(pattern[k].alts) THEN 0
    ELSE LET s == pattern[k].alts[j]
             end == IF HasAt(text, p, s)
                    THEN MatchFrom(pattern, k + 1, text, p + Len(s))
                    ELSE 0
         IN  IF end # 0 THEN end ELSE TryAlts(pattern, k, text, p, j + 1)

\* The repetition of element k taking n characters, then fewer.
TryRuns(pattern, k, text, p, n) ==
    IF n < 1 THEN 0
    ELSE LET end == MatchFrom(pattern, k + 1, text, p + n)
         IN  IF end # 0 THEN end ELSE TryRuns(pattern, k, text, p, n - 1)

\* re.search(pattern, text): the leftmost match, or no match.
NoMatch == [found |-> FALSE, start |-> 0, group0 |-> <<>>]

search(pattern, text) ==
    LET starts == {p \in 1..Len(text) : MatchFrom(pattern, 1, text, p) # 0}
    IN  IF starts = {} THEN NoMatch
        ELSE LET p == CHOOSE q \in starts : \A o \in starts : q <= o
             IN  [found |-> TRUE, start |-> p,
                  group0 |-> SubSeq(text, p, MatchFrom(pattern, 1, text, p) - 1)]

\* The patterns in the order the two loops of parse_url visit them.
PatternOrder ==
    UNION {{<<i, j>> : j \in DOMAIN PLATFORM_PATTERNS[i].patterns} :
              i \in DOMAIN PLATFORM_PATTERNS}

Before(a, b) == a[1] < b[1] \/ (a[1] = b[1] /\ a[2] <= b[2])

\* A parse_url that returns the match that begins first in the text.
parse_url_leftmost(text) ==
    LET hits == {ij \in PatternOrder :
                    search(PLATFORM_PATTERNS[ij[1]].patterns[ij[2]], text).found}
        at(ij) == search(PLATFORM_PATTERNS[ij[1]].patterns[ij[2]], text)
    IN  IF hits = {} THEN [url |-> None, platform |-> "UNKNOWN"]
        ELSE LET ij == CHOOSE a \in hits :
                          \A b \in hits :
                              \/ at(a).start < at(b).start
                              \/ at(a).start = at(b).start /\ Before(a, b)
             IN  [url |-> at(ij).group0,
                  platform |-> PLATFORM_PATTERNS[ij[1]].platform]

\* A parse_url that hands the text back when no pattern matches.
parse_url_echo(text) ==
    LET hits == {ij \in PatternOrder :
                    search(PLATFORM_PATTERNS[ij[1]].patterns[ij[2]], text).found}
    IN  IF hits = {} THEN [url |-> text, platform |-> "UNKNOWN"]
        ELSE LET ij == CHOOSE a \in hits : \A b \in hits : Before(a, b)
             IN  [url |-> search(PLATFORM_PATTERNS[ij[1]].patterns[ij[2]], text).group0,
                  platform |-> PLATFORM_PATTERNS[ij[1]].platform]

parse_url(text) ==
    LET hits == {ij \in PatternOrder :
                    search(PLATFORM_PATTERNS[ij[1]].patterns[ij[2]], text).found}
    IN  IF hits = {} THEN [url |-> None, platform |-> "UNKNOWN"]
        ELSE LET ij == CHOOSE a \in hits : \A b \in hits : Before(a, b)
             IN  [url |-> search(PLATFORM_PATTERNS[ij[1]].patterns[ij[2]], text).group0,
                  platform |-> PLATFORM_PATTERNS[ij[1]].platform]

\* The pieces the texts given to parse_url are made of: an address of each
\* pattern, words that are no address, and nothing.

Segments ==
    {<<>>,
     <<"h","t","t","p","s",":","/","/","w","w","w",".","y","o","u","t","u",
       "b","e",".","c","o","m","/","w","a","t","c","h","?","v","=","d","Q",
       "w","-","9">>,
     <<"y","o","u","t","u","b","e",".","c","o","m","/","s","h","o","r","t",
       "s","/","a","b","_","1">>,
     <<"h","t","t","p",":","/","/","y","o","u","t","u",".","b","e","/","x",
       "1">>,
     <<"f","a","c","e","b","o","o","k",".","c","o","m","/","u","s","e","r",
       "/","v","i","d","e","o","s","/","1","2","3">>,
     <<"w","w","w",".","f","a","c","e","b","o","o","k",".","c","o","m","/",
       "r","e","e","l","/","1","2">>,
     <<"f","a","c","e","b","o","o","k",".","c","o","m","/","r","e","e","l",
       "/","1","/","v","i","d","e","o","s","/","2">>,
     <<"f","a","c","e","b","o","o","k",".","c","o","m","/","s","t","o","r",
       "i","e","s","/","3">>,
     <<"h","t","t","p","s",":","/","/","f","b",".","w","a","t","c","h","/",
       "a","-","b">>,
     <<"i","n","s","t","a","g","r","a","m",".","c","o","m","/","r","e","e",
       "l","s","/","a","b">>,
     <<"h","t","t","p","s",":","/","/","i","n","s","t","a","g","r","a","m",
       ".","c","o","m","/","p","/","x","-","1">>,
     <<"i","n","s","t","a","g","r","a","m",".","c","o","m","/","s","t","o",
       "r","i","e","s","/","u",".","s","e","r","/","1","2">>,
     <<"h","e","l","l","o"," ","v","i","d","e","o">>,
     <<"y","o","u","t","u","b","e",".","c","o","m","/","w","a","t","c","h",
       "?","v","="," ","f","a","c","e","b","o","o","k",".","c","o","m","/",
       "r","e","e","l","/","x">>,
     <<"f","a","c","e","b","o","o","k",".","c","o","m","/","a","\n","/","v",
       "i","d","e","o","s","/","1">>}

ParseTexts ==
    {a \o <<" ">> \o b : a \in Segments, b \in Segments}
        \cup {a \o b :
                a \in {<<"h","e","l","l","o"," ","v","i","d","e","o">>,
                       <<"h","t","t","p",":","/","/","y","o","u","t","u",".",
                         "b","e","/","x","1">>},
                b \in Segments}

\* parse_url(arg.text), twice
call_parse_url ==
    /\ arg.fn = "parse_url"
    /\ Len(rets) < 2
    /\ rets' = Append(rets, parse_url(arg.text))
    /\ UNCHANGED <<arg, fs, pipelineVars>>

(***************************************************************************)
(* auth.py                                                                 *)
(***************************************************************************)
\* update.effective_user: None, or a user with an id.
NoUser == [present |-> FALSE, id |-> 0]

User(id) == [present |-> TRUE, id |-> id]

UserIds == {0, 1, 2, 123456789}

\* An is_authorized that lets every user in.
is_authorized_anyone(user_id, owner_id) == TRUE

is_authorized(user_id, owner_id) == user_id = owner_id

\* wrapper(update, context) of auth_decorator(owner_id)(func): whether func
\* is awaited, and the value returned, func_returns being what func returns
\* when it is awaited.
wrapper(effective_user, owner_id, func_returns) ==
    IF ~effective_user.present
    THEN [called |-> FALSE, ret |-> NoPath]
    ELSE IF ~is_authorized(effective_user.id, owner_id)
    THEN [called |-> FALSE, ret |-> NoPath]
    ELSE [called |-> TRUE, ret |-> func_returns]

WrapperCalls ==
    {[fn |-> "wrapper", effective_user |-> u, owner_id |-> o, func_returns |-> v] :
        u \in {NoUser} \cup {User(i) : i \in UserIds},
        o \in UserIds,
        v \in {"success", NoPath}}

\* auth_decorator(arg.owner_id)(func)(update, context)
call_wrapper ==
    /\ arg.fn = "wrapper"
    /\ rets = <<>>
    /\ rets' = <<wrapper(arg.effective_user, arg.owner_id, arg.func_returns)>>
    /\ UNCHANGED <<arg, fs, pipelineVars>>

\* The words the descriptions given to map_ytdlp_error are made of: every
\* keyword of the four groups, "extractor needs", and a word that is no
\* keyword.
AllKeywords ==
    not_found_keywords \o access_denied_keywords \o network_keywords \o update_keywords

EXTRACTOR_NEEDS == <<"e","x","t","r","a","c","t","o","r"," ","n","e","e","d","s">>

ProbeWords == AllKeywords \o <<EXTRACTOR_NEEDS, <<"o","o","p","s">>>>

\* A second word of each group, or none.
SecondWords ==
    {<<>>, not_found_keywords[2], access_denied_keywords[1], network_keywords[3],
     update_keywords[1], update_keywords[6], EXTRACTOR_NEEDS}

\* Descriptions str(e): a word as the lists spell it or in capitals, then
\* possibly a second word.
ErrorTexts ==
    {<<"E",":"," ">> \o w1 \o <<" ">> \o w2 :
        w1 \in {ProbeWords[i] : i \in DOMAIN ProbeWords}
                 \cup {upper(ProbeWords[i]) : i \in DOMAIN ProbeWords},
        w2 \in SecondWords}

\* is_file_size_valid called twice on one path, with two ceilings.
SizedFileStates ==
    {Absent, Directory}
        \cup {RegularFile(s) : s \in {0, 1, 10 * MB - 1, 10 * MB, 10 * MB + 1,
                                       50 * MB, 50 * MB + 1, 60 * MB}}

Ceilings == {0, 10 * MB, DEFAULT_MAX_FILE_SIZE, DEFAULT_MAX_FILE_SIZE + 1, 60 * MB}

SizeCalls ==
    {[fn |-> "is_file_size_valid", file |-> f, max_sizes |-> <<m1, m2>>,
      statFails |-> b] :
        f \in SizedFileStates, m1 \in Ceilings, m2 \in Ceilings, b \in BOOLEAN}

\* is_file_size_valid(file_path, arg.max_sizes[i]) for the next i
call_is_file_size_valid ==
    /\ arg.fn = "is_file_size_valid"
    /\ Len(rets) < Len(arg.max_sizes)
    /\ rets' = Append(rets, is_file_size_valid(arg.file,
                                                arg.max_sizes[Len(rets) + 1],
                                                arg.statFails))
    /\ UNCHANGED <<arg, fs, pipelineVars>>

\* cleanup_file called twice on one path; removeFails[i]: the operating
\* system refuses the os.remove of call i.
CleanupCalls ==
    {[fn |-> "cleanup_file", file |-> f, removeFails |-> <<b1, b2>>] :
        f \in {Absent, Directory, RegularFile(0), RegularFile(10 * MB)},
        b1 \in BOOLEAN, b2 \in BOOLEAN}

\* cleanup_file(".mp4"), once more
call_cleanup_file ==
    /\ arg.fn = "cleanup_file"
    /\ Len(rets) < Len(arg.removeFails)
    /\ LET cleaned == cleanup_file(fs[1][".mp4"], arg.removeFails[Len(rets) + 1])
       IN  /\ rets' = Append(rets, cleaned.ret)
           /\ fs' = [fs EXCEPT ![1][".mp4"] = cleaned.file]
    /\ UNCHANGED <<arg, pipelineVars>>

\* The values uuid.uuid4() returns.  A value is 122 random bits, and uuid4
\* is taken never to return one it has returned: used holds those.
Uuids == {"uuid-a", "uuid-b", "uuid-c", "uuid-d"}

uuid4(used) == Uuids \ used

\* An output_path made of the directory alone.
output_path_fixed_name(output_dir, uuid) ==
    [dir |-> output_dir, name |-> "video", ext |-> ".mp4"]

\* os.path.join(output_dir, f"{uuid.uuid4()}.mp4")
output_path(output_dir, uuid) ==
    [dir |-> output_dir, name |-> uuid, ext |-> ".mp4"]

\* Two or three calls of download_video in a row, each with a URL and an
\* output directory; of each call the output path it hands to the engine
\* is kept.
PathCalls ==
    LET Args == [url : {"url-1", "url-2"}, output_dir : {"/tmp", "/data"}]
    IN  {[fn |-> "download_video", calls |-> c] :
            c \in UNION {[1..n -> Args] : n \in 2..3}}

\* download_video(url, output_dir) of the next call, up to line 125
call_download_video ==
    /\ arg.fn = "download_video"
    /\ Len(rets) < Len(arg.calls)
    /\ \E u \in uuid4({rets[i].name : i \in DOMAIN rets}) :
        rets' = Append(rets, output_path(arg.calls[Len(rets) + 1].output_dir, u))
    /\ UNCHANGED <<arg, fs, pipelineVars>>

\* download_video with sync_progress_callback as its progress_callback:
\* the engine reports event d and ends as engine says.
CallbackCalls ==
    {[fn |-> "sync_progress_callback", d |-> d, loop |-> l, engine |-> e] :
        d \in ProgressEvents, l \in LoopStates, e \in EngineOutcomes}

call_sync_progress_callback ==
    /\ arg.fn = "sync_progress_callback"
    /\ rets = <<>>
    /\ LET percent == _handle_progress(arg.d)
           cb == IF percent = NoCall
                 THEN [raised |-> FALSE, queued |-> FALSE]
                 ELSE sync_progress_callback(arg.loop)
           engine == ydl_download(arg.engine, cb.raised)
       IN  rets' = <<[raised |-> cb.raised, queued |-> cb.queued,
                      result |-> download_video(engine, engine.files)]>>
    /\ UNCHANGED <<arg, fs, pipelineVars>>

\* download_video from line 134 on: the engine has returned and left
\* files of some size at any of the four paths.
ProbeCalls ==
    {[fn |-> "download_video:134", files |-> FilesOf(p, sz)] :
        p \in SUBSET ExtSet, sz \in {0, 10 * MB}}

call_download_video_probe ==
    /\ arg.fn = "download_video:134"
    /\ rets = <<>>
    /\ rets' = <<download_video([raised |-> "no", text |-> <<>>,
                                 files |-> arg.files], arg.files)>>
    /\ UNCHANGED <<arg, fs, pipelineVars>>

\* _handle_progress(arg.d, callback): the calls of the callback.
call_handle_progress_callback ==
    /\ arg.fn = "_handle_progress:callback"
    /\ rets = <<>>
    /\ rets' = <<_handle_progress_calls(arg.d)>>
    /\ UNCHANGED <<arg, fs, pipelineVars>>

\* send_video and is_file_size_valid on one path in one state, with one
\* ceiling: what send_video does up to its await, and what
\* is_file_size_valid returns.
GateCalls ==
    {[fn |-> "send_video:139", file |-> f, max_size |-> m, statFails |-> b,
      openError |-> o] :
        f \in SizedFileStates, m \in Ceilings, b \in BOOLEAN, o \in OpenErrors}

call_send_video_gate ==
    /\ arg.fn = "send_video:139"
    /\ rets = <<>>
    /\ rets' = <<[gate |-> send_video_gate(arg.file, arg.max_size,
                                           arg.statFails, arg.openError),
                  valid |-> is_file_size_valid(arg.file, arg.max_size,
                                               arg.statFails)]>>
    /\ UNCHANGED <<arg, fs, pipelineVars>>

\* The pair parse_url returned as handle_message keeps it: the text of a
\* URL is not looked at again before the download.
LinkOf(pair) ==
    [url |-> IF pair.url = None THEN NoPath ELSE "url", platform |-> pair.platform]

\* handle_message up to its first await (bot.py lines 132-170) on the text
\* arg.text: what parse_url returned and the call the handler awaits.
call_handle_message_parse ==
    /\ arg.fn = "handle_message:139"
    /\ rets = <<>>
    /\ LET parsed == parse_url(arg.text)
       IN  rets' = <<[parsed |-> parsed, next |-> after_parse_url(LinkOf(parsed))]>>
    /\ UNCHANGED <<arg, fs, pipelineVars>>

\* Arguments of update_downloading_percent, in tenths of a percent: below
\* 0, above 100, the two ends, halves and values on either side of them.
PercentArgs ==
    {0 - Pct(100), 0 - 6, 0 - 5, 0 - 1, 0, 4, 5, 6, 15, 25, 333, 666,
     994, 995, 996, Pct(100), Pct(100) + 1, Pct(100) + 5, Pct(150)}

\* update_downloading_percent(chat_id, message_id, arg.percent): the text
\* it hands to update_progress.
call_update_downloading_percent ==
    /\ arg.fn = "update_downloading_percent"
    /\ rets = <<>>
    /\ rets' = <<DownloadingPercentText(arg.percent)>>
    /\ UNCHANGED <<arg, fs, pipelineVars>>

UnitCalls ==
    {[fn |-> "_handle_progress", d |-> d] : d \in ProgressDicts}
        \cup {[fn |-> "update_downloading_percent", percent |-> p] : p \in PercentArgs}
        \cup {[fn |-> "handle_message:139", text |-> t] : t \in ParseTexts}
        \cup GateCalls
        \cup {[fn |-> "_handle_progress:callback", d |-> d] : d \in ProgressDicts}
        \cup {[fn |-> "map_ytdlp_error", error |-> t] : t \in ErrorTexts}
        \cup WrapperCalls
        \cup SizeCalls
        \cup CleanupCalls
        \cup {[fn |-> "parse_url", text |-> t] : t \in ParseTexts}
        \cup PathCalls
        \cup CallbackCalls
        \cup ProbeCalls

\* map_ytdlp_error(Exception(arg.error))
call_map_ytdlp_error ==
    /\ arg.fn = "map_ytdlp_error"
    /\ rets = <<>>
    /\ rets' = <<map_ytdlp_error(arg.error)>>
    /\ UNCHANGED <<arg, fs, pipelineVars>>

\* _handle_progress(arg.d, callback): the value the callback receives.
call_handle_progress ==
    /\ arg.fn = "_handle_progress"
    /\ rets = <<>>
    /\ rets' = <<_handle_progress(arg.d)>>
    /\ UNCHANGED <<arg, fs, pipelineVars>>

InitCalls ==
    /\ Quiet
    /\ pc = [r \in Reqs |-> "off"]
    /\ ready = <<>>
    /\ running = Idle
    /\ sv = [r \in Reqs |-> NoFrame]
    /\ arg \in UnitCalls
    /\ fs = [r \in Reqs |->
                IF r = 1 /\ arg.fn = "cleanup_file"
                THEN [NoFiles EXCEPT ![".mp4"] = arg.file]
                ELSE NoFiles]

NextCalls ==
    \/ call_handle_progress
    \/ call_map_ytdlp_error
    \/ call_wrapper
    \/ call_is_file_size_valid
    \/ call_cleanup_file
    \/ call_parse_url
    \/ call_download_video
    \/ call_sync_progress_callback
    \/ call_download_video_probe
    \/ call_handle_progress_callback
    \/ call_update_downloading_percent
    \/ call_handle_message_parse
    \/ call_send_video_gate

SpecCalls == InitCalls /\ [][NextCalls]_vars

(***************************************************************************)
(* Properties of send_video (sender.py).                                   *)
(***************************************************************************)
\* The path send_video was called with, as it is now.
SentFile(r) == fs[r][sv[r].file_path]

\* The file send_video found at the path exceeds the ceiling.
Oversize(r) == os_path_exists(sv[r].entry) /\ sv[r].entry.size > sv[r].max_size

Downloaded(r) == ydl[r].raised # "none"

\* C4: download_video never raises: however ydl.download ends, a
\* DownloadResult is returned, and when it raised DownloadError or another
\* exception the result is a failure whose error_message is str(e).
DownloadVideoNeverRaises ==
    \A r \in Reqs :
        /\ ~result[r].raised
        /\ Downloaded(r) /\ ydl[r].raised # "no" =>
              /\ ~result[r].success
              /\ result[r].error_message = ydl[r].text

\* C4: the engine raised an exception other than DownloadError and the
\* handler holds the failure carrying its description.
GenericExceptionReturned ==
    \E r \in Reqs :
        /\ ydl[r].raised = "Exception"
        /\ ydl[r].text = <<"ERR_UNSUPPORTED_URL">>
        /\ ~result[r].raised /\ ~result[r].success
        /\ result[r].error_message = <<"ERR_UNSUPPORTED_URL">>
        /\ pc[r] = "report_error"

\* C5 as stated: every DownloadResult download_video returns has, on
\* success, a file_path, a file_size above 0 and no error_message, and on
\* failure no file_path, file_size 0 and an error_message; also when the
\* engine left an empty file at the output path.
DownloadResultWellFormed ==
    \A r \in Reqs :
        Downloaded(r) =>
            IF result[r].success
            THEN /\ result[r].file_path # NoPath
                 /\ result[r].file_size > 0
                 /\ result[r].error_message = None
            ELSE /\ result[r].file_path = NoPath
                 /\ result[r].file_size = 0
                 /\ result[r].error_message # None

(***************************************************************************)
(* Properties of handle_message (bot.py).                                  *)
(***************************************************************************)
\* The operations request r has performed.
Ops(r) == {log[r][i] : i \in DOMAIN log[r]}

\* send_video returned success, or a failure, to the handler of r.
Delivered(r) == sv[r].returned /\ sv[r].ret[1]

DeliveryFailed(r) == sv[r].returned /\ ~sv[r].ret[1]

DownloadFailed(r) == Downloaded(r) /\ ~result[r].success

\* C2 as stated: when handle_message has returned, no file remains at the
\* request's base path with any extension, and the file the download
\* created was deleted by send_video exactly once.
NoArtifactRemains ==
    \A r \in Reqs :
        pc[r] = "done" =>
            /\ \A e \in ExtSet : ~os_path_exists(fs[r][e])
            /\ Downloaded(r) /\ (\E e \in ExtSet : os_path_exists(ydl[r].files[e]))
                  => cleanups[r] = 1

\* C6 as stated: once the handler has overwritten the status message with
\* the "sending" text or with an error text, or has deleted it, no percent
\* edit is issued for the request.
PercentOnlyWhileDownloading ==
    \A r \in Reqs :
        \A i, j \in DOMAIN log[r] :
            /\ i < j
            /\ log[r][i] \in {"update_sending", "error", "except", "delete_progress"}
            => log[r][j] # "percent"

\* C7: for a request whose status message was created, when the handler
\* has returned: if send_video succeeded the handler called delete_progress
\* and never wrote an error text; if the download or send_video failed it
\* wrote an error-prefixed text and never called delete_progress.  The chat
\* loses the status message only after a successful delivery.
StatusMessageEnding ==
    \A r \in Reqs :
        /\ pc[r] = "done" /\ progress_msg_id[r] # 0 =>
              /\ Delivered(r) =>
                    /\ "delete_progress" \in Ops(r)
                    /\ Ops(r) \cap {"error", "except"} = {}
                    /\ reported[r] = <<>>
              /\ DownloadFailed(r) \/ DeliveryFailed(r) =>
                    /\ "error" \in Ops(r)
                    /\ "delete_progress" \notin Ops(r)
                    /\ Len(reported[r]) = 1
                    /\ Head(reported[r][1]) = "ERROR_PREFIX"
              /\ Delivered(r) \/ DownloadFailed(r) \/ DeliveryFailed(r)
        /\ msg[r].kind = "deleted" => Delivered(r)

\* C7: a delivery succeeded and the status message is gone from the chat.
DeliveredAndDeleted ==
    \E r \in Reqs :
        /\ pc[r] = "done"
        /\ Delivered(r)
        /\ videos[r] = 1
        /\ msg[r].kind = "deleted"

\* C8 as stated: every error text the handler shows is the error prefix
\* followed by the fixed message of a DownloadError member.
ErrorsShownAreCategoryMessages ==
    \A r \in Reqs :
        \A i \in DOMAIN reported[r] :
            \E m \in DownloadErrorMembers :
                reported[r][i] = <<"ERROR_PREFIX">> \o get_error_message(m)

NoExceptionEscapes == \A r \in Reqs : ~escaped[r]

\* C11: for a message in which parse_url finds no URL, handle_message
\* awaits one reply_text with the guidance text and ends: no status message
\* is created, ydl.download is not run, send_video is not called, and
\* nothing else reaches the chat.
NoUrlOnlyGuidance ==
    \A r \in Reqs :
        "no_url" \in Ops(r) =>
            /\ log[r] = <<"no_url", "guidance">>
            /\ pc[r] \in {"reply_guidance", "done"}
            /\ pc[r] = "reply_guidance" =>
                  \/ Call(Handler(r), "reply_text", <<"TXT_GUIDANCE">>) \in calls
                  \/ Handler(r) \in {ready[i] : i \in DOMAIN ready}
            /\ replies[r] \in {<<>>, << <<"TXT_GUIDANCE">> >>}
            /\ pc[r] = "done" /\ ~escaped[r] => replies[r] = << <<"TXT_GUIDANCE">> >>
            /\ progress_msg_id[r] = 0 /\ msg[r] = NoMsg
            /\ ~Downloaded(r) /\ events[r] = 0 /\ tasks[r] = <<>>
            /\ sv[r] = NoFrame /\ videos[r] = 0 /\ cleanups[r] = 0

\* C11: the guidance message reached the chat and the handler has ended.
GuidanceDelivered ==
    \E r \in Reqs :
        /\ pc[r] = "done"
        /\ log[r] = <<"no_url", "guidance">>
        /\ replies[r] = << <<"TXT_GUIDANCE">> >>
        /\ msg[r] = NoMsg

\* The operations of the handler of r in order, those of its update tasks
\* left out.
HandlerOps(r) == SelectSeq(log[r], LAMBDA op : op # "percent")

\* The operations of a request that runs to a successful delivery.
SuccessOrder ==
    <<"url", "send_downloading", "download_video", "update_sending",
      "send_video", "cleanup_file", "delete_progress">>

CallbackRuns(r, k) ==
    /\ k \in DOMAIN tasks[r]
    /\ tasks[r][k].pc = "new"
    /\ tasks'[r][k].pc # "new"

\* The edit update_progress_callback issues for percent p.
PercentEdit(r, k, p) ==
    Call(UpdateTask(r, k), "edit_message_text", DownloadingPercentText(p))

Returned(fn) == arg.fn = fn /\ rets # <<>>

\* min(part / whole * 100, 99) in tenths of a percent.
CappedRatio(part, whole) ==
    LET ratio == (part * Pct(100)) \div whole
    IN  IF ratio < Pct(99) THEN ratio ELSE Pct(99)

\* C14: for every progress event the value _handle_progress passes to the
\* callback lies in [0, 100]; while the status is "downloading" it is
\* min(ratio * 100, 99), of the bytes when a total is known or estimated
\* and of the fragments otherwise, and never exceeds 99; 100 is passed
\* only for the status "finished", and then whatever the counters are; an
\* event of another status, or without total and fragments, passes nothing.
ProgressValueInRange ==
    Returned("_handle_progress") =>
        LET d == arg.d
            v == rets[1]
            total == IF d.total_bytes # 0 THEN d.total_bytes
                     ELSE d.total_bytes_estimate
        IN  /\ v # NoCall => 0 <= v /\ v <= Pct(100)
            /\ d.status = "finished" => v = Pct(100)
            /\ v = Pct(100) => d.status = "finished"
            /\ d.status = "downloading" =>
                  /\ v # NoCall => v <= Pct(99)
                  /\ total > 0 => v = CappedRatio(d.downloaded_bytes, total)
                  /\ total = 0 /\ d.fragment_count > 0 =>
                        v = CappedRatio(d.fragment_index, d.fragment_count)
                  /\ total = 0 /\ d.fragment_count = 0 => v = NoCall
            /\ d.status \notin {"downloading", "finished"} => v = NoCall

\* C14: all the bytes are there while the status is still "downloading",
\* and the callback received 99.
CappedAtNinetyNine ==
    /\ Returned("_handle_progress")
    /\ arg.d.status = "downloading"
    /\ arg.d.downloaded_bytes = 100 /\ arg.d.total_bytes = 100
    /\ rets = <<Pct(99)>>

\* The keyword groups in the order map_ytdlp_error tests them, and the
\* member each stands for.
Groups ==
    <<not_found_keywords, access_denied_keywords, network_keywords, update_keywords>>

GroupCategory == <<"VIDEO_NOT_FOUND", "ACCESS_DENIED", "NETWORK_ERROR", "YTDLP_ERROR">>

\* Word w occurs in the text, whatever the case of the text.
Occurs(text, w) == Contains(lower(text), w)

\* The groups of which a keyword occurs in the text.
MatchingGroups(text) ==
    {g \in DOMAIN Groups : \E k \in DOMAIN Groups[g] : Occurs(text, Groups[g][k])}

\* C15: map_ytdlp_error returns the member of the first group, in the order
\* VIDEO_NOT_FOUND, ACCESS_DENIED, NETWORK_ERROR, YTDLP_ERROR, of which a
\* keyword occurs in the description whatever its case, whatever keywords
\* of later groups also occur and wherever they stand; UNKNOWN_ERROR when
\* no keyword occurs.
ClassifiedByFirstGroup ==
    Returned("map_ytdlp_error") =>
        LET m == MatchingGroups(arg.error)
        IN  rets[1] = IF m = {} THEN "UNKNOWN_ERROR"
                      ELSE GroupCategory[CHOOSE g \in m : \A h \in m : g <= h]

\* C15: a description with a network keyword in capitals followed by a
\* not-found keyword was classified VIDEO_NOT_FOUND.
NotFoundBeatsNetwork ==
    /\ Returned("map_ytdlp_error")
    /\ arg.error = <<"E",":"," ">> \o upper(network_keywords[1]) \o <<" ">> \o not_found_keywords[2]
    /\ MatchingGroups(arg.error) = {1, 3}
    /\ rets = <<"VIDEO_NOT_FOUND">>

\* The group-4 keywords as the specification lists them, and as lines
\* 159-167 list them.
YTDLP_NEEDS == <<"y","t","-","d","l","p"," ","n","e","e","d","s">>

SpecifiedUpdateWords ==
    << <<"u","p","d","a","t","e">>,
       <<"o","u","t","d","a","t","e","d">>,
       <<"u","p","g","r","a","d","e">>,
       <<"n","e","w"," ","v","e","r","s","i","o","n">>,
       <<"p","l","e","a","s","e"," ","u","p","d","a","t","e">>,
       <<"e","x","t","r","a","c","t","o","r"," ","n","e","e","d","s">>,
       <<"e","x","t","r","a","c","t","o","r"," ","e","r","r","o","r">> >>

CodedUpdateWords == [SpecifiedUpdateWords EXCEPT ![6] = YTDLP_NEEDS]

\* No keyword of groups 1 to 3 occurs in the text.
NoEarlierGroup(text) == MatchingGroups(text) \cap {1, 2, 3} = {}

\* C16 as stated: a description in which one of "update", "outdated",
\* "upgrade", "new version", "please update", "extractor needs",
\* "extractor error" occurs, and no keyword of groups 1 to 3, is classified
\* YTDLP_ERROR.
SpecifiedUpdateWordsClassified ==
    Returned("map_ytdlp_error") =>
        \A k \in DOMAIN SpecifiedUpdateWords :
            Occurs(arg.error, SpecifiedUpdateWords[k]) /\ NoEarlierGroup(arg.error)
                => rets[1] = "YTDLP_ERROR"

\* C16: a description in which one of "update", "outdated", "upgrade",
\* "new version", "please update", "yt-dlp needs", "extractor error"
\* occurs, and no keyword of groups 1 to 3, is classified YTDLP_ERROR;
\* "extractor needs" is no keyword: a description with it and none of the
\* keywords above is classified UNKNOWN_ERROR.
CodedUpdateWordsClassified ==
    Returned("map_ytdlp_error") =>
        /\ \A k \in DOMAIN CodedUpdateWords :
              Occurs(arg.error, CodedUpdateWords[k]) /\ NoEarlierGroup(arg.error)
                  => rets[1] = "YTDLP_ERROR"
        /\ /\ Occurs(arg.error, EXTRACTOR_NEEDS)
           /\ NoEarlierGroup(arg.error)
           /\ \A k \in DOMAIN CodedUpdateWords : ~Occurs(arg.error, CodedUpdateWords[k])
           => rets[1] = "UNKNOWN_ERROR"

\* C16: "YT-DLP NEEDS" alone was classified YTDLP_ERROR.
YtdlpNeedsClassified ==
    /\ Returned("map_ytdlp_error")
    /\ arg.error = <<"E",":"," ">> \o upper(YTDLP_NEEDS) \o <<" ">>
    /\ rets = <<"YTDLP_ERROR">>

\* C17: the handler wrapped by auth_decorator(owner_id) is awaited if and
\* only if the update has an effective user whose id equals owner_id, and
\* the wrapper then returns what the handler returned; for an update
\* without effective user or with another id the wrapper returns None
\* without awaiting the handler, and no call reaches the chat.
WrapperAdmitsOwnerOnly ==
    Returned("wrapper") =>
        /\ rets[1].called <=>
                arg.effective_user.present /\ arg.effective_user.id = arg.owner_id
        /\ rets[1].called => rets[1].ret = arg.func_returns
        /\ ~rets[1].called => rets[1].ret = NoPath
        /\ calls = {}
        /\ \A r \in Reqs : replies[r] = <<>> /\ msg[r] = NoMsg /\ videos[r] = 0

\* C17: an update of another user was dropped: the handler was not awaited
\* and the wrapper returned None.
StrangerDropped ==
    /\ Returned("wrapper")
    /\ arg.effective_user = User(2)
    /\ arg.owner_id = 123456789
    /\ arg.func_returns = "success"
    /\ rets = <<[called |-> FALSE, ret |-> NoPath]>>
(***************************************************************************)
(* Properties of is_file_size_valid (sender.py).                           *)
(***************************************************************************)
\* The i-th call of is_file_size_valid has returned.
SizeChecked(i) == arg.fn = "is_file_size_valid" /\ Len(rets) >= i

\* C18: for an existing file of size f and a ceiling m, is_file_size_valid
\* returns True exactly when f <= m (a file of m bytes is valid, one of
\* m + 1 bytes is not), so a file valid for a ceiling is valid for every
\* greater ceiling; for a path that does not exist, and for one whose size
\* cannot be read, it returns False.
SizeValidIffWithinCeiling ==
    /\ \A i \in 1..2 :
        SizeChecked(i) =>
            rets[i] = (/\ arg.file.kind # "absent"
                       /\ ~arg.statFails
                       /\ arg.file.size <= arg.max_sizes[i])
    /\ SizeChecked(2) /\ arg.max_sizes[1] <= arg.max_sizes[2] /\ rets[1] = TRUE
            => rets[2] = TRUE

\* A file one byte over the default ceiling is rejected for that ceiling
\* and accepted for the ceiling of exactly its size.
SizeBoundaryDecided ==
    /\ SizeChecked(2)
    /\ arg.file = RegularFile(DEFAULT_MAX_FILE_SIZE + 1)
    /\ ~arg.statFails
    /\ arg.max_sizes = <<DEFAULT_MAX_FILE_SIZE, DEFAULT_MAX_FILE_SIZE + 1>>
    /\ rets = <<FALSE, TRUE>>

(***************************************************************************)
(* Properties of cleanup_file (sender.py).                                 *)
(***************************************************************************)
\* cleanup_file was called on a path that is no directory, and the
\* operating system did not refuse the removal of the file there.
CleanupOfFile ==
    /\ arg.fn = "cleanup_file"
    /\ rets # <<>>
    /\ \/ arg.file.kind = "absent"
       \/ arg.file.kind = "file" /\ ~arg.removeFails[1]

PairsWhenDeleted(r) ==
    IF sv[r].transport
    THEN IF videos[r] > 0
         THEN {<<TRUE, None>>}
         ELSE {<<FALSE, <<"TXT_SEND_ERROR">> \o e>> : e \in TransportErrors}
    ELSE {send_video_gate(sv[r].entry, sv[r].max_size, s, o).ret :
            s \in BOOLEAN, o \in OpenErrors} \ {<<TRUE, None>>}

\* C20: when the deletion fails (the path is a directory, or the operating
\* system refuses the removal and the path is still there), cleanup_file
\* returns False without raising, and send_video returns the pair
\* (success, error) it returns when the deletion succeeds.
DeletionFailureKeepsResult ==
    \A r \in Reqs :
        sv[r].returned =>
            /\ sv[r].entry.kind = "dir" \/ os_path_exists(SentFile(r))
                  => ~sv[r].removed
            /\ ~sv[r].removed =>
                  /\ SentFile(r) = sv[r].entry
                  /\ sv[r].ret \in PairsWhenDeleted(r)

\* The video was delivered, the removal of the file was refused, and
\* send_video returned (True, None) with the file still there.
DeliveredButNotDeleted ==
    \E r \in Reqs :
        /\ pc[r] = "done"
        /\ sv[r].transport /\ videos[r] = 1
        /\ sv[r].entry.kind = "file"
        /\ ~sv[r].removed
        /\ SentFile(r) = sv[r].entry
        /\ sv[r].ret = <<TRUE, None>>

(***************************************************************************)
(* Properties of parse_url (url_parser.py).                                *)
(***************************************************************************)
\* Some pattern of PLATFORM_PATTERNS matches somewhere in text.
SomePatternMatches(text) ==
    \E i \in DOMAIN PLATFORM_PATTERNS :
        \E j \in DOMAIN PLATFORM_PATTERNS[i].patterns :
            search(PLATFORM_PATTERNS[i].patterns[j], text).found

\* C21: parse_url returns a pair (url, platform) in which url is present
\* exactly when platform is not UNKNOWN; when no pattern matches the pair is
\* (None, UNKNOWN); a second call on the same text returns the same pair.
ParseUrlPairWellFormed ==
    arg.fn = "parse_url" =>
        /\ \A i \in DOMAIN rets :
            /\ rets[i].url # None <=> rets[i].platform # "UNKNOWN"
            /\ rets[i].platform \in {"YOUTUBE", "FACEBOOK", "INSTAGRAM", "UNKNOWN"}
            /\ ~SomePatternMatches(arg.text) =>
                  rets[i] = [url |-> None, platform |-> "UNKNOWN"]
            /\ SomePatternMatches(arg.text) => rets[i].url # None
        /\ Len(rets) = 2 => rets[1] = rets[2]

\* A text of words only was parsed twice, to (None, UNKNOWN) both times.
WordsParsedToNothing ==
    /\ arg.fn = "parse_url"
    /\ arg.text = <<"h","e","l","l","o"," ","v","i","d","e","o"," ",
                    "h","e","l","l","o"," ","v","i","d","e","o">>
    /\ rets = <<[url |-> None, platform |-> "UNKNOWN"],
                [url |-> None, platform |-> "UNKNOWN"]>>

\* The sub-patterns of the i-th platform that match somewhere in text.
MatchingPatterns(i, text) ==
    {j \in DOMAIN PLATFORM_PATTERNS[i].patterns :
        search(PLATFORM_PATTERNS[i].patterns[j], text).found}

\* The match of the earliest-listed sub-pattern of the i-th platform that
\* matches.
EarliestListedMatch(i, text) ==
    LET j == CHOOSE n \in MatchingPatterns(i, text) :
                \A o \in MatchingPatterns(i, text) : n <= o
    IN  search(PLATFORM_PATTERNS[i].patterns[j], text)

\* C22: when patterns of several platforms match in a text, parse_url
\* returns the match of the first platform in the order YouTube, Facebook,
\* Instagram that has a match, wherever in the text the matches begin; of
\* that platform it returns the match of the earliest-listed sub-pattern
\* that matches.
ParseUrlPriority ==
    arg.fn = "parse_url" /\ rets # <<>> =>
        \A i \in 1..3 :
            /\ MatchingPatterns(i, arg.text) # {}
            /\ \A h \in 1..(i - 1) : MatchingPatterns(h, arg.text) = {}
            => /\ rets[1].platform = <<"YOUTUBE", "FACEBOOK", "INSTAGRAM">>[i]
               /\ rets[1].url = EarliestListedMatch(i, arg.text).group0

\* A Facebook address that two sub-patterns match stands before a YouTube
\* address, and the YouTube address was returned.
LaterYouTubeAddressReturned ==
    /\ arg.fn = "parse_url" /\ rets # <<>>
    /\ Cardinality(MatchingPatterns(2, arg.text)) = 2
    /\ MatchingPatterns(1, arg.text) # {}
    /\ EarliestListedMatch(2, arg.text).start < EarliestListedMatch(1, arg.text).start
    /\ rets[1].platform = "YOUTUBE"
    /\ rets[1].url = EarliestListedMatch(1, arg.text).group0

DownloadYieldsToQueuedTasks ==
    \A r \in Reqs :
        pc[r] = "download_video" /\ ready # <<>> => Scheduled(Head(ready))

\* How many times request r has performed op.
Times(r, op) == Cardinality({i \in DOMAIN log[r] : log[r][i] = op})

\* C25: within one request download_video, and with it the engine, is
\* invoked at most once and bot.send_video is invoked at most once,
\* whatever fails.
NoRetry ==
    \A r \in Reqs :
        /\ Times(r, "download_video") <= 1
        /\ Times(r, "send_video") <= 1
        /\ videos[r] <= 1
        /\ cleanups[r] <= 1

\* bot.send_video raised, the request has ended, and the download and the
\* send were invoked once each.
SendFailedAndNotRetried ==
    \E r \in Reqs :
        /\ pc[r] = "done"
        /\ sv[r].transport /\ DeliveryFailed(r)
        /\ Times(r, "download_video") = 1
        /\ Times(r, "send_video") = 1
        /\ videos[r] = 0

(***************************************************************************)
(* Properties of sync_progress_callback (bot.py).                          *)
(***************************************************************************)
\* C26: sync_progress_callback never raises into the download: with a
\* running loop it queues one update task and returns; with no running
\* loop, or when scheduling fails, the update is dropped; in every case
\* download_video returns what it returns when nothing fails in the
\* callback.
CallbackNeverRaises ==
    arg.fn = "sync_progress_callback" /\ rets # <<>> =>
        /\ ~rets[1].raised
        /\ rets[1].queued =
              (_handle_progress(arg.d) # NoCall /\ arg.loop = "running")
        /\ rets[1].result = download_video(arg.engine, arg.engine.files)

\* create_task raised for a progress event, the update was dropped, and
\* the download succeeded.
UpdateDroppedDownloadSucceeded ==
    /\ arg.fn = "sync_progress_callback" /\ rets # <<>>
    /\ _handle_progress(arg.d) # NoCall
    /\ arg.loop = "create_task_raises"
    /\ ~rets[1].raised /\ ~rets[1].queued
    /\ rets[1].result.success

(***************************************************************************)
(* Properties of the ProgressManager (progress.py).                        *)
(***************************************************************************)
\* The handler of r is resumed by the answer to a call of update_progress
\* or delete_progress.
ProgressCallAnswered(r) ==
    /\ Scheduled(Handler(r))
    /\ pc[r] \in {"update_sending", "report_error", "delete_progress",
                  "report_exception"}
    /\ pc'[r] # pc[r]

\* C27: update_progress and delete_progress never raise: the handler
\* receives True when the transport call succeeded and False when it
\* raised, and in neither case is the except clause entered or does an
\* exception leave the handler.
ProgressManagerNeverRaises ==
    [][\A r \in Reqs :
          ProgressCallAnswered(r) =>
              /\ progressRet'[r] = Append(progressRet[r], awaitRes[r].ok)
              /\ log'[r] = log[r]
              /\ ~escaped'[r]]_vars

\* The status message was edited to the "sending" text, and its deletion
\* raised and was returned as False.
DeletionFailureReturned ==
    \E r \in Reqs :
        /\ pc[r] = "done"
        /\ progressRet[r] = <<TRUE, FALSE>>
        /\ "delete_progress" \in Ops(r)
        /\ "except" \notin Ops(r)
        /\ ~escaped[r]

(***************************************************************************)
(* Properties of the paths download_video probes (downloader.py).          *)
(***************************************************************************)
\* The places, in the order .mp4, .mkv, .webm, .m4a, at which a file
\* exists.
ExistingInOrder(files) ==
    {i \in 1..4 : files[<<".mp4", ".mkv", ".webm", ".m4a">>[i]].kind # "absent"}

\* C28: after the engine has returned, download_video reports success with
\* the expected output path (base + .mp4) and its size when that path
\* exists; otherwise success with the first existing path among base +
\* .mp4, .mkv, .webm, .m4a in that order, and its size; and when none
\* exists, failure with the description that the file was not created.
FirstExistingPathReported ==
    arg.fn = "download_video:134" /\ rets # <<>> =>
        IF ExistingInOrder(arg.files) = {}
        THEN /\ ~rets[1].success /\ ~rets[1].raised
             /\ rets[1].file_path = NoPath
             /\ rets[1].file_size = 0
             /\ rets[1].error_message = <<"TXT_FILE_NOT_CREATED">>
        ELSE \A i \in ExistingInOrder(arg.files) :
                (\A j \in ExistingInOrder(arg.files) : i <= j) =>
                    /\ rets[1].success /\ ~rets[1].raised
                    /\ rets[1].file_path = <<".mp4", ".mkv", ".webm", ".m4a">>[i]
                    /\ rets[1].file_size = arg.files[rets[1].file_path].size
                    /\ rets[1].error_message = None

\* The engine left files at base + .webm and base + .m4a only, and the
\* .webm path was reported.
WebmReportedBeforeM4a ==
    /\ arg.fn = "download_video:134" /\ rets # <<>>
    /\ ExistingInOrder(arg.files) = {3, 4}
    /\ rets[1].success
    /\ rets[1].file_path = ".webm"
    /\ rets[1].file_size = 10 * MB

(***************************************************************************)
(* Properties of the calls _handle_progress makes (downloader.py).         *)
(***************************************************************************)
\* C29: _handle_progress calls the callback at most once for an event;
\* not at all when the status is neither 'downloading' nor 'finished', nor
\* when it is 'downloading' and neither a positive byte total or estimate
\* nor a positive fragment count is known; the fragment ratio is used only
\* when no positive byte total and no positive estimate is there.
CallbackCalledAtMostOnce ==
    arg.fn = "_handle_progress:callback" /\ rets # <<>> =>
        LET d == arg.d
            passed == rets[1]
            bytesKnown == d.total_bytes > 0 \/ d.total_bytes_estimate > 0
        IN  /\ Len(passed) <= 1
            /\ d.status \notin {"downloading", "finished"} => passed = <<>>
            /\ d.status = "downloading" /\ ~bytesKnown /\ d.fragment_count <= 0
                  => passed = <<>>
            /\ d.status = "downloading" /\ bytesKnown =>
                  passed = <<CappedRatio(d.downloaded_bytes,
                                         IF d.total_bytes > 0 THEN d.total_bytes
                                         ELSE d.total_bytes_estimate)>>
            /\ d.status = "downloading" /\ ~bytesKnown /\ d.fragment_count > 0
                  => passed = <<CappedRatio(d.fragment_index, d.fragment_count)>>
            /\ d.status = "finished" => passed = <<Pct(100)>>

\* An event with a known byte total and known fragment counters whose two
\* ratios differ: the callback received the byte ratio, once.
ByteRatioPreferred ==
    /\ arg.fn = "_handle_progress:callback" /\ rets # <<>>
    /\ arg.d.status = "downloading"
    /\ arg.d.total_bytes = 100 /\ arg.d.downloaded_bytes = 50
    /\ arg.d.fragment_count = 2 /\ arg.d.fragment_index = 0
    /\ rets[1] = <<Pct(50)>>

(***************************************************************************)
(* Properties of a failed download in handle_message (bot.py).             *)
(***************************************************************************)
\* The text the handler shows for the failure download_video returned to
\* request r: the prefix and the message of the category of the
\* description.
FailureText(r) ==
    <<"ERROR_PREFIX">>
        \o get_error_message(map_ytdlp_error(ErrorMessageOr(result[r].error_message)))

\* The handler of r awaits the edit of the status message to text, or is
\* ready to go on after it.
AwaitsEdit(r, text) ==
    \/ \E c \in calls :
          c.by = Handler(r) /\ c.op = "edit_message_text" /\ c.text = text
    \/ \E i \in DOMAIN ready : ready[i] = Handler(r)

\* C30: when download_video has returned a failure, the handler never
\* writes the "sending" text and never calls send_video; it classifies the
\* description, overwrites the status message with the prefixed message of
\* the category, and with the answer to that call the request ends.
FailedDownloadOnlyReported ==
    /\ [](\A r \in Reqs :
            DownloadFailed(r) =>
                /\ pc[r] \in {"report_error", "done"}
                /\ "update_sending" \notin Ops(r)
                /\ "send_video" \notin Ops(r)
                /\ "except" \notin Ops(r)
                /\ sv[r] = NoFrame /\ videos[r] = 0 /\ cleanups[r] = 0
                /\ reported[r] = <<FailureText(r)>>
                /\ pc[r] = "report_error" => AwaitsEdit(r, FailureText(r)))
    /\ [][\A r \in Reqs :
            DownloadFailed(r) /\ pc'[r] # pc[r] =>
                /\ pc'[r] = "done"
                /\ progressRet'[r] = <<awaitRes[r].ok>>]_vars

\* The engine raised "Video unavailable", the status message shows the
\* message for a video that was not found, and the request has ended.
UnavailableVideoReported ==
    \E r \in Reqs :
        /\ pc[r] = "done"
        /\ ydl[r].raised = "DownloadError"
        /\ DownloadFailed(r)
        /\ reported[r] = <<<<"ERROR_PREFIX", "MSG_VIDEO_NOT_FOUND">>>>
        /\ msg[r].text = <<"ERROR_PREFIX", "MSG_VIDEO_NOT_FOUND">>
        /\ progressRet[r] = <<TRUE>>

(***************************************************************************)
(* Properties of update_downloading_percent (progress.py).                 *)
(***************************************************************************)
\* The text with n as its number.
PercentTextOf(n) == <<"TXT_DOWNLOADING_PCT">> \o DecStr(n) \o <<"%">>

\* The distance between two numbers.
Distance(a, b) == IF a >= b THEN a - b ELSE b - a

\* C31: the number update_downloading_percent writes into the status text
\* is an integer between 0 and 100; it is 0 for an argument below 0, 100
\* for an argument above 100, and otherwise an integer nearest to the
\* argument (at most half a point away).
PercentClampedAndRounded ==
    arg.fn = "update_downloading_percent" /\ rets # <<>> =>
        \E n \in 0..100 :
            /\ rets[1] = PercentTextOf(n)
            /\ arg.percent < 0 => n = 0
            /\ arg.percent > Pct(100) => n = 100
            /\ arg.percent \in 0..Pct(100) =>
                    2 * Distance(arg.percent, Pct(n)) <= Pct(1)

\* An argument of 150 and one of -0.5 have been written as 100% and 0%.
OutOfRangePercentClamped ==
    /\ arg.fn = "update_downloading_percent"
    /\ \/ arg.percent = Pct(150) /\ rets = <<PercentTextOf(100)>>
       \/ arg.percent = 0 - 5 /\ rets = <<PercentTextOf(0)>>

(***************************************************************************)
(* Termination of handle_message (bot.py).                                 *)
(***************************************************************************)
\* C32: when the download call and every transport call end, a handler
\* that has started reaches its end.
HandlerTerminates ==
    \A r \in Reqs : pc[r] = "start" ~> pc[r] = "done"

\* A handler has ended on its longest branch: the download ran, the send
\* failed at the transport, and the error was written.
HandlerEndedAfterFailedSend ==
    /\ pc[1] = "done"
    /\ Times(1, "download_video") = 1
    /\ Times(1, "send_video") = 1
    /\ Times(1, "error") = 1

(***************************************************************************)
(* The platform test of handle_message (bot.py, url_parser.py).            *)
(***************************************************************************)
\* C33: handle_message never answers "platform not supported": whenever
\* parse_url returns a URL, is_supported_platform of the platform it
\* returns is true and the handler goes on to send the status message and
\* download; what parse_url returns is one of the pairs the pipeline is
\* started with.
UnsupportedReplyUnreachable ==
    arg.fn = "handle_message:139" /\ rets # <<>> =>
        LET parsed == rets[1].parsed
            next == rets[1].next
        IN  /\ next.tag # "unsupported"
            /\ parsed.url # None =>
                    /\ is_supported_platform(parsed.platform)
                    /\ next.tag = "send_downloading"
            /\ parsed.url = None => next.tag = "guidance"
            /\ LinkOf(parsed) \in ParsedLinks

\* A text with an Instagram address alone has been parsed and the handler
\* awaits the status message.
InstagramAddressProceeds ==
    /\ arg.fn = "handle_message:139" /\ rets # <<>>
    /\ rets[1].parsed.platform = "INSTAGRAM"
    /\ rets[1].parsed.url # None
    /\ rets[1].next.op = "send_message"

(***************************************************************************)
(* The last reported percent (bot.py, update_progress_callback).           *)
(***************************************************************************)
\* The update tasks of r that issue their edit in this step.
EditingTasks(r) ==
    {k \in DOMAIN tasks[r] : tasks[r][k].pc = "new" /\ tasks'[r][k].pc = "await"}

\* C34: last_percent of a request stays between 0 and 100 and no step
\* lowers it; once it is 100, the only update tasks that still edit the
\* status message are those of a further 'finished' event, never those of
\* a 'downloading' event.
LastPercentMonotone ==
    /\ [](\A r \in Reqs : last_percent[r] \in 0..Pct(100))
    /\ [][\A r \in Reqs :
            /\ last_percent'[r] >= last_percent[r]
            /\ last_percent[r] = Pct(100) =>
                    \A k \in EditingTasks(r) : tasks[r][k].percent = Pct(100)]_vars

\* A 'finished' event was followed by a 'downloading' event: 100 was
\* written, and the later task ended without an edit.
DownloadingAfterFinishedDropped ==
    /\ Len(tasks[1]) = 2
    /\ tasks[1][1].percent = Pct(100)
    /\ tasks[1][2].percent < Pct(100)
    /\ tasks[1][2].pc = "done"
    /\ last_percent[1] = Pct(100)
    /\ Times(1, "percent") = 1

(***************************************************************************)
(* Two requests in flight (bot.py, handle_message).                        *)
(***************************************************************************)
\* The session of request r: its chat and the status message its
\* send_message created.
OwnSession(r) == [chat_id |-> r, message_id |-> r]

\* The coroutine that takes this step, when a coroutine does.
Stepping == IF running # Idle THEN running
            ELSE IF ready # <<>> THEN Head(ready) ELSE Idle

RejectedBySizeGate(gate) ==
    gate.ret[2] \in {<<"TXT_FILE_MISSING">>, <<"TXT_SIZE_UNREADABLE">>,
                     TooLargeMessage(arg.file.size, arg.max_size)}

\* C36 as stated: send_video calls the transport exactly when
\* is_file_size_valid returns True for the path and the ceiling.
TransportCalledIffSizeValid ==
    arg.fn = "send_video:139" /\ rets # <<>> =>
        (rets[1].gate.go <=> rets[1].valid)

\* C36, amended: send_video gets past its three checks exactly when
\* is_file_size_valid returns True for the path and the ceiling, and it
\* calls the transport exactly when, in addition, open() succeeds, which
\* it does not for a directory or a file that cannot be read.
SizeGateAgreesAndOpenDecides ==
    arg.fn = "send_video:139" /\ rets # <<>> =>
        /\ ~RejectedBySizeGate(rets[1].gate) <=> rets[1].valid
        /\ rets[1].gate.go <=>
                /\ rets[1].valid
                /\ arg.file.kind = "file"
                /\ arg.openError = None

\* A file of exactly the ceiling is valid and was not handed to the
\* transport, because open() raised.
ValidFileNotOpened ==
    /\ arg.fn = "send_video:139" /\ rets # <<>>
    /\ arg.file = RegularFile(arg.max_size)
    /\ rets[1].valid
    /\ ~rets[1].gate.go
    /\ rets[1].gate.ret = <<FALSE, <<"TXT_SEND_ERROR", "ERR_PERMISSION_DENIED">>>>

(***************************************************************************)
(* The pair send_video returns (sender.py).                                *)
(***************************************************************************)
\* bot.send_video was called for r and returned without raising.
TransportSent(r) == sv[r].transport /\ videos[r] = 1

\* C37: a send_video that has returned has returned (True, None) if
\* bot.send_video was called and returned without raising, and otherwise
\* (False, m) with m a message that is not empty; no exception left it.
SendVideoPairTellsTransport ==
    \A r \in Reqs :
        sv[r].returned =>
            /\ ~escaped[r]
            /\ TransportSent(r) <=> sv[r].ret = <<TRUE, None>>
            /\ ~TransportSent(r) =>
                    /\ sv[r].ret[1] = FALSE
                    /\ sv[r].ret[2] # None
                    /\ Render(sv[r].ret[2]) # <<>>

\* bot.send_video was called on a file within the ceiling and raised:
\* send_video returned False with the description of the error.
TransportRaisedPairReturned ==
    /\ sv[1].returned /\ sv[1].caller = "caller"
    /\ sv[1].transport /\ videos[1] = 0
    /\ sv[1].entry = RegularFile(sv[1].max_size)
    /\ sv[1].ret = <<FALSE, <<"TXT_SEND_ERROR", "ERR_FORBIDDEN">>>>

(***************************************************************************)
(* When the update tasks run (bot.py, downloader.py).                      *)
(***************************************************************************)
\* The points at which the handler awaits its first call after
\* download_video has returned or raised (bot.py lines 202, 207, 230).
FirstAwaitAfterDownload == {"report_error", "update_sending", "report_exception"}

\* C38: while download_video is executing no percent edit has been issued
\* and no update task has started; an update task starts only when the
\* download has ended and the handler stands at its first await after it.
NoPercentEditBeforeDownloadReturns ==
    /\ [](\A r \in Reqs :
            pc[r] = "download_video" =>
                /\ Times(r, "percent") = 0
                /\ \A k \in DOMAIN tasks[r] : tasks[r][k].pc = "new"
                /\ \A c \in calls : c.by[2] # r)
    /\ [][\A r \in Reqs : \A k \in 1..MaxEvents + 1 :
            CallbackRuns(r, k) =>
                /\ ydl[r] # NotRun
                /\ pc[r] \in FirstAwaitAfterDownload
                /\ running = Idle]_vars

\* The download has returned and the handler awaits the edit to
\* "sending"; behind it the task of a 'finished' event has issued the
\* edit to 100%.
PercentEditAtFirstAwait ==
    /\ pc[1] = "update_sending"
    /\ result[1].success
    /\ Call(Handler(1), "edit_message_text", <<"TXT_SENDING">>) \in calls
    /\ PercentEdit(1, 1, Pct(100)) \in calls

====
